---- MODULE Spec2Model ----
(***************************************************************************)
(* Model of brave-deep-research-mcp.                                       *)
(*                                                                         *)
(*   Spec      performDeepSearch (services/puppeteer) driving              *)
(*             extractContentFromUrl and the shared browser of             *)
(*             utils/browser.                                              *)
(*   LiveSpec  Spec with weak fairness: the event loop keeps running the   *)
(*             continuation of every settled await.                        *)
(*   FetchSpec the two page fetchers called one after the other:           *)
(*             extractContentFromUrl and ContentExtractor.extractContent   *)
(*             (with BrowserManager.newPage / getBrowser).                 *)
(***************************************************************************)
EXTENDS Integers, Sequences, FiniteSets, TLC

----------------------------------------------------------------------------
(* Bounds of the model *)

NumUrls == 4

MaxSeeds == 2

MaxLinks == 1

MaxDepthOpt == 2

MaxPagesOpt == 4

MaxCalls == 3

\* concurrent callers of getBrowser
NumCallers == 2

\* getBrowser calls made in a run
MaxGets == 3

\* browser launches started in a run
MaxLaunches == 3

\* closeBrowser calls made in a run
MaxCloses == 1

\* seeds of each of two concurrent invocations
ConcurrentSeeds == 2

\* distinct URLs, and links of a page, that two invocations meet
PairUrls == 2

PairLinks == 1

\* largest results argument of a tool call in HandlerSpec
MaxResultsOpt == 2

\* arguments of ClampSpec are drawn from -ParamRange..ParamRange
ParamRange == 12

\* anchors of a page in LinkSpec
MaxAnchors == 2

\* anchors of a page in LinkCapSpec
ManyAnchors == 12

\* content selectors that are tried, in priority order (the code lists 9)
NumSelectors == 2

\* elements that one content selector matches
MaxMatches == 2

\* paragraph elements of a document
MaxParagraphs == 2

\* search results of a deepSearch call of the service
ServiceResults == 2

\* links of a page in ServiceSpec
ServiceLinks == 4

\* largest depth argument of a deepSearch call of the service
ServiceDepthOpt == 3

----------------------------------------------------------------------------
(* Program constants *)

\* options.depth || 1
DefaultDepth == 1

\* options.maxPages || 5
DefaultMaxPages == 5

\* results = 3 and || 3 of the handler
DefaultResults == 3

\* depth = 1 and || 1 of the handler
DefaultDepthArg == 1

\* Math.max(1, ...) of the handler
ParamFloor == 1

\* Math.min(..., 10) of the handler
ResultsCap == 10

\* Math.min(..., 3) of the handler
DepthCap == 3

\* links.slice(0, 10) of ContentExtractor.extractLinks
LinkCap == 10

\* const { depth = 0 } = params of DeepSearchService.deepSearch
DefaultServiceDepth == 0

\* Math.min(depth, 2) of DeepSearchService.deepSearch
ServiceDepthCap == 2

\* links.slice(0, 3) of processRelatedPages
RelatedCap == 3

\* textContent.trim().length > 100 of extractMainContent
MinTextLength == 100

----------------------------------------------------------------------------
(* Values *)

Urls == 1..NumUrls

SeqsUpTo(S, n) == UNION {[1..k -> S] : k \in 0..n}

\* the link lists a fetched page can carry (only link.url is read)
LinkLists == SeqsUpTo(Urls, MaxLinks)

Max(S) == CHOOSE x \in S : \A y \in S : y <= x

\* URLs are compared for equality only, so they are numbered in the order in
\* which the traversal first meets them: after URLs 1..k, a list may name a
\* URL already met or the next new one
InOrderOfDiscovery(k, l) ==
  \A i \in 1..Len(l) : l[i] <= Max({k} \cup {l[j] : j \in 1..(i - 1)}) + 1

NoError == "none"

NoPage == 0

NoBrowser == 0

NoRecord == [url |-> 0, title |-> "", content |-> "", links |-> <<>>, error |-> NoError]

\* how a call ends: threw tells whether it throws or returns, rec is the
\* record it returns, err the failure that happened in it (NoError: none)
NoOutcome == [threw |-> FALSE, rec |-> NoRecord, err |-> NoError]

\* PageContent / ExtractedContent of a page that was extracted
PageContent(u, l) ==
  [url |-> u, title |-> "Title", content |-> "Text", links |-> l, error |-> NoError]

\* a || b for numbers: 0 (and an absent option) is falsy
OrDefault(opt, dflt) == IF opt = 0 THEN dflt ELSE opt

Range(s) == {s[i] : i \in 1..Len(s)}

----------------------------------------------------------------------------
VARIABLES
  \* performDeepSearch
  initialUrls, depth, maxPages, visitedUrls, results, queue, pc, cur,
  \* history of the traversal: entries ever enqueued, entries taken off the
  \* queue, fetches started (with their outcome)
  enqueued, dequeued, fetchLog,
  \* one page fetch (extractContentFromUrl / ContentExtractor.extractContent)
  fn, fpc, furl, page, pend, ret,
  \* the browser pages that are open, and those the current fetch opened
  openPages, opened,
  \* the page constant of BrowserManager.newPage
  bmPage,
  \* utils/browser
  browserInstance,
  \* BrowserManager
  browser, isInitializing, initPromise,
  \* the calls made in FetchSpec
  calls,
  \* the URLs met so far are 1..disc
  disc,
  \* concurrent callers of getBrowser: the manager they call, where each one
  \* is, the launch it awaits and what it was given
  mgr, gpc, held, got, gets,
  \* the browser of each puppeteer.launch of the run ("none": not started,
  \* "launching", "connected", "disconnected", "failed"), and the launch behind
  \* BrowserManager's initPromise
  chromium, initLaunch,
  \* the signal handlers: the browser whose close() they await, and whether
  \* process.exit was called
  closing, exited,
  \* deepSearchTool.handler: its arguments, where it is, the validated
  \* parameters, how the upstream search ended and the response
  params, hpc, maxResults, maxDepth, searched, response,
  \* extractLinks: the anchors of the page, the function that is applied
  \* (utils/content-extractor or ContentExtractor) and the links it returns
  anchors, lfn, lpc, extracted,
  \* extractMainContent: the document, the function that is applied
  \* (utils/content-extractor or ContentExtractor) and the element it selects
  dom, sfn, spc, selected,
  \* the closeBrowser calls made, and what the last call of each caller left
  \* behind when it ended
  closes, closed,
  \* two invocations of a traversal (each one's arguments, queue, visited set,
  \* result list and position), and what fetching each URL gives
  invocations, web,
  \* DeepSearchService.deepSearch: its arguments, where it is, the depth it
  \* enforces, the search results and the one in hand, the enriched results;
  \* processRelatedPages: the links it is given, the ones it processes and the
  \* one in hand, the pages it extracted
  request, dpc, actualDepth, searchResults, resultAt, enrichedResults,
  contentLinks, pagesToProcess, linkAt, relatedPages,
  \* history: the pages fetched for the search result in hand
  crawl

tvars == <<initialUrls, depth, maxPages, visitedUrls, results, queue, pc, cur,
           enqueued, dequeued, fetchLog>>

fvars == <<fn, fpc, furl, page, pend, ret, openPages, opened, bmPage>>

bvars == <<browser, isInitializing, initPromise>>

gvars == <<mgr, gpc, held, got, gets, chromium, initLaunch, closing, exited>>

hvars == <<params, hpc, maxResults, maxDepth, searched, response>>

lvars == <<anchors, lfn, lpc, extracted>>

xvars == <<gvars, hvars, lvars>>

svars == <<dom, sfn, spc, selected>>

cvars == <<closes, closed>>

pvars == <<invocations, web>>

dvars == <<request, dpc, actualDepth, searchResults, resultAt, enrichedResults,
           contentLinks, pagesToProcess, linkAt, relatedPages, crawl>>

yvars == <<svars, cvars, pvars, dvars>>

vars == <<tvars, fvars, browserInstance, bvars, calls, disc, xvars, yvars>>

\* the callers of getBrowser
Callers == 1..NumCallers

\* the launches of a run, in the order they are started
Launches == 1..MaxLaunches

\* what a getBrowser call gave its caller: the instance, whether it was
\* connected when it was returned, the reference the call found cached, and
\* whether the call launched a browser
NoReturn == [instance |-> NoBrowser, connected |-> FALSE, found |-> NoBrowser,
             launched |-> FALSE]

\* no caller, no browser process, no signal
BrowsersIdle ==
  /\ gpc = [c \in Callers |-> "idle"]
  /\ held = [c \in Callers |-> NoBrowser]
  /\ got = [c \in Callers |-> NoReturn]
  /\ gets = 0
  /\ chromium = [b \in Launches |-> "none"]
  /\ initLaunch = NoBrowser
  /\ closing = NoBrowser /\ exited = FALSE


\* params of a tool call: an argument is given or absent
Arg(v) == [given |-> TRUE, value |-> v]

Absent == [given |-> FALSE, value |-> 0]

\* a tool response: kind tells the text block it carries ("report", the
\* "notice" that the search found nothing, or the "error" text with message),
\* pages are the URLs of the report; threw: the handler threw instead
NoResponse == [isError |-> FALSE, kind |-> "none", pages |-> <<>>,
               message |-> NoError, threw |-> FALSE]

HandlerIdle ==
  /\ params = [results |-> Absent, depth |-> Absent]
  /\ hpc = "none"
  /\ maxResults = 0 /\ maxDepth = 0
  /\ searched = "none"
  /\ response = NoResponse

LinksIdle ==
  /\ anchors = <<>> /\ lfn = "none" /\ lpc = "none" /\ extracted = <<>>

NoSelection == [by |-> "none", selector |-> 0, element |-> 0]

NoDocument == [matches |-> <<>>, paragraphs |-> <<>>]

SelectIdle ==
  /\ dom = NoDocument /\ sfn = "none" /\ spc = "none" /\ selected = NoSelection

\* how a closeBrowser call ended: the browser it found cached, the cached
\* reference and the state of that browser when the call ended, and whether
\* the call threw
NotClosed == [ended |-> FALSE, target |-> NoBrowser, reference |-> NoBrowser,
              state |-> "none", threw |-> FALSE]

\* closeBrowser has no callers
ClosersIdle == closes = 0 /\ closed = <<>>

Invocations == 1..2

\* a URL that no invocation fetched yet
NotFetched == [known |-> FALSE, threw |-> FALSE, links |-> <<>>]

\* no invocation is made
InvocationsIdle == invocations = <<>> /\ web = <<>>

\* deepSearch is not called
ServiceIdle ==
  /\ request = [depth |-> Absent]
  /\ dpc = "none"
  /\ actualDepth = 0
  /\ searchResults = <<>> /\ resultAt = 0 /\ enrichedResults = <<>>
  /\ contentLinks = <<>> /\ pagesToProcess = <<>> /\ linkAt = 0
  /\ relatedPages = <<>>
  /\ crawl = <<>>

OthersIdle == SelectIdle /\ ClosersIdle /\ InvocationsIdle /\ ServiceIdle

----------------------------------------------------------------------------
(* utils/browser: the shared browser of the traversal *)

\* getBrowser, browserInstance already set: returned without launching
GetBrowserCached ==
  /\ fn = "extractContentFromUrl" /\ fpc = "getBrowser"
  /\ browserInstance # NoBrowser
  /\ fpc' = "newPage"
  /\ UNCHANGED <<fn, furl, page, pend, ret, openPages, opened, bmPage, browserInstance>>
  /\ UNCHANGED <<tvars, bvars, calls, disc>>
  /\ UNCHANGED xvars
  /\ UNCHANGED yvars

\* getBrowser, no browserInstance: puppeteer.launch is awaited
GetBrowserLaunch ==
  /\ fn = "extractContentFromUrl" /\ fpc = "getBrowser"
  /\ browserInstance = NoBrowser
  /\ fpc' = "launch"
  /\ UNCHANGED <<fn, furl, page, pend, ret, openPages, opened, bmPage, browserInstance>>
  /\ UNCHANGED <<tvars, bvars, calls, disc>>
  /\ UNCHANGED xvars
  /\ UNCHANGED yvars

\* the launch resolves: the instance is stored and returned
LaunchOk ==
  /\ fn = "extractContentFromUrl" /\ fpc = "launch"
  /\ browserInstance' = 1
  /\ fpc' = "newPage"
  /\ UNCHANGED <<fn, furl, page, pend, ret, openPages, opened, bmPage>>
  /\ UNCHANGED <<tvars, bvars, calls, disc>>
  /\ UNCHANGED xvars
  /\ UNCHANGED yvars

\* the launch rejects: getBrowser rejects, and so does extractContentFromUrl,
\* whose await of getBrowser is outside its try block
LaunchFails ==
  /\ fn = "extractContentFromUrl" /\ fpc = "launch"
  /\ fpc' = "threw"
  /\ ret' = [threw |-> TRUE, rec |-> NoRecord, err |-> "launch"]
  /\ UNCHANGED <<fn, furl, page, pend, openPages, opened, bmPage, browserInstance>>
  /\ UNCHANGED <<tvars, bvars, calls, disc>>
  /\ UNCHANGED xvars
  /\ UNCHANGED yvars

----------------------------------------------------------------------------
(* services/puppeteer: extractContentFromUrl *)

\* a page handle not in use
FreshPage == CHOOSE p \in 1..(Cardinality(openPages) + 1) : p \notin openPages

\* page.close() leaves the page open
ClosePageLeaks(open, p) == open

\* page.close(): the page is closed when the call settles
ClosePage(open, p) == open \ {p}

\* browser.newPage() resolves (line 25)
NewPageOk ==
  /\ fn = "extractContentFromUrl" /\ fpc = "newPage"
  /\ page' = FreshPage
  /\ openPages' = openPages \cup {FreshPage}
  /\ opened' = opened \cup {FreshPage}
  /\ fpc' = "try"
  /\ UNCHANGED <<fn, furl, pend, ret, bmPage, browserInstance>>
  /\ UNCHANGED <<tvars, bvars, calls, disc>>
  /\ UNCHANGED xvars
  /\ UNCHANGED yvars

\* browser.newPage() rejects (line 25, outside the try block)
NewPageFails ==
  /\ fn = "extractContentFromUrl" /\ fpc = "newPage"
  /\ fpc' = "threw"
  /\ ret' = [threw |-> TRUE, rec |-> NoRecord, err |-> "newPage"]
  /\ UNCHANGED <<fn, furl, page, pend, openPages, opened, bmPage, browserInstance>>
  /\ UNCHANGED <<tvars, bvars, calls, disc>>
  /\ UNCHANGED xvars
  /\ UNCHANGED yvars

\* the try block runs to its return statement (lines 29-52)
TryOk ==
  /\ fn = "extractContentFromUrl" /\ fpc = "try"
  /\ \E l \in LinkLists :
       /\ InOrderOfDiscovery(disc, l)
       /\ pend' = [threw |-> FALSE, rec |-> PageContent(furl, l), err |-> NoError]
  /\ fpc' = "finally"
  /\ UNCHANGED <<fn, furl, page, ret, openPages, opened, bmPage, browserInstance>>
  /\ UNCHANGED <<tvars, bvars, calls, disc>>
  /\ UNCHANGED xvars
  /\ UNCHANGED yvars

\* setUserAgent, goto or one of the extractions rejects: the catch block
\* logs and rethrows (lines 53-55)
TryFails ==
  /\ fn = "extractContentFromUrl" /\ fpc = "try"
  /\ \E e \in {"setUserAgent", "goto", "extract"} :
       pend' = [threw |-> TRUE, rec |-> NoRecord, err |-> e]
  /\ fpc' = "finally"
  /\ UNCHANGED <<fn, furl, page, ret, openPages, opened, bmPage, browserInstance>>
  /\ UNCHANGED <<tvars, bvars, calls, disc>>
  /\ UNCHANGED xvars
  /\ UNCHANGED yvars

\* finally: the page is closed, then the call returns or throws (lines 56-58)
Finally ==
  /\ fn = "extractContentFromUrl" /\ fpc = "finally"
  /\ openPages' = ClosePage(openPages, page)
  /\ page' = NoPage
  /\ ret' = pend
  /\ pend' = NoOutcome
  /\ fpc' = IF pend.threw THEN "threw" ELSE "returned"
  /\ UNCHANGED <<fn, furl, opened, bmPage, browserInstance>>
  /\ UNCHANGED <<tvars, bvars, calls, disc>>
  /\ UNCHANGED xvars
  /\ UNCHANGED yvars

ExtractContentFromUrl ==
  \/ GetBrowserCached \/ GetBrowserLaunch \/ LaunchOk \/ LaunchFails
  \/ NewPageOk \/ NewPageFails \/ TryOk \/ TryFails \/ Finally

----------------------------------------------------------------------------
(* services/puppeteer: performDeepSearch *)

NoEntry == [url |-> 0, currentDepth |-> 0]

\* initialUrls.map(url => ({ url, currentDepth: 1 }))
SeedQueue(seeds) == [i \in 1..Len(seeds) |-> [url |-> seeds[i], currentDepth |-> 1]]

\* the budget test off by one
BudgetMetOffByOne(r, mp) == Len(r) > mp

\* the budget test left out
BudgetMetNever(r, mp) == FALSE

\* results.length >= maxPages (line 82; line 78 tests its negation)
BudgetMet(r, mp) == Len(r) >= mp

\* the while condition (line 78)
LoopCondition(q, r, mp) == Len(q) > 0 /\ ~BudgetMet(r, mp)

\* the visited test left out
IsVisitedNever(v, u) == FALSE

\* visitedUrls.has(url)
IsVisited(v, u) == u \in v

\* the URL is not recorded
AddVisitedForgets(v, u) == v

\* visitedUrls.add(url)
AddVisited(v, u) == v \cup {u}

\* the head is read but not removed
ShiftPeek(q) == q

\* queue.shift(): what is left of the queue
Shift(q) == Tail(q)

\* the depth test off by one
ShouldExpandInclusive(cd, d) == cd <= d

\* currentDepth < depth (line 94)
ShouldExpand(cd, d) == cd < d

\* the links are enqueued two levels below their parent
LinkedPagesSkipLevel(links, v, cd) ==
  LET keep(u) == ~IsVisited(v, u)
      kept == SelectSeq(links, keep)
  IN  [i \in 1..Len(kept) |-> [url |-> kept[i], currentDepth |-> cd + 2]]

\* pageContent.links.filter(not visited).map(link => ({url, currentDepth + 1}))
LinkedPages(links, v, cd) ==
  LET keep(u) == ~IsVisited(v, u)
      kept == SelectSeq(links, keep)
  IN  [i \in 1..Len(kept) |-> [url |-> kept[i], currentDepth |-> cd + 1]]

\* queue.unshift(...linkedPages)
PushFront(q, items) == items \o q

\* queue.push(...linkedPages)
Push(q, items) == q \o items

\* history: queue entries with the URL of the page that linked to them (0 for
\* a seed)
From(parent, items) ==
  [i \in 1..Len(items) |-> [url |-> items[i].url,
                            currentDepth |-> items[i].currentDepth,
                            from |-> parent]]

\* the entries an update took off the front of the queue
Removed(q, q2) == SubSeq(q, 1, Len(q) - Len(q2))

\* the loop ends: return results (lines 78, 111)
Return ==
  /\ pc = "loop"
  /\ ~LoopCondition(queue, results, maxPages)
  /\ pc' = "done"
  /\ UNCHANGED <<initialUrls, depth, maxPages, visitedUrls, results, queue, cur,
                 enqueued, dequeued, fetchLog>>
  /\ UNCHANGED <<fvars, browserInstance, bvars, calls, disc>>
  /\ UNCHANGED xvars
  /\ UNCHANGED yvars

\* an entry is dequeued and skipped (lines 79-84)
Skip ==
  /\ pc = "loop"
  /\ LoopCondition(queue, results, maxPages)
  /\ IsVisited(visitedUrls, Head(queue).url) \/ BudgetMet(results, maxPages)
  /\ queue' = Shift(queue)
  /\ dequeued' = dequeued \o Removed(queue, queue')
  /\ UNCHANGED <<initialUrls, depth, maxPages, visitedUrls, results, pc, cur,
                 enqueued, fetchLog>>
  /\ UNCHANGED <<fvars, browserInstance, bvars, calls, disc>>
  /\ UNCHANGED xvars
  /\ UNCHANGED yvars

\* an entry is dequeued, marked visited and its fetch starts (lines 79-90)
Visit ==
  /\ pc = "loop"
  /\ LoopCondition(queue, results, maxPages)
  /\ ~(IsVisited(visitedUrls, Head(queue).url) \/ BudgetMet(results, maxPages))
  /\ cur' = Head(queue)
  /\ queue' = Shift(queue)
  /\ dequeued' = dequeued \o Removed(queue, queue')
  /\ visitedUrls' = AddVisited(visitedUrls, Head(queue).url)
  /\ fetchLog' = Append(fetchLog, [url |-> Head(queue).url,
                                   currentDepth |-> Head(queue).currentDepth,
                                   status |-> "started"])
  /\ pc' = "fetch"
  /\ fn' = "extractContentFromUrl"
  /\ fpc' = "getBrowser"
  /\ furl' = Head(queue).url
  /\ opened' = {}
  /\ UNCHANGED <<initialUrls, depth, maxPages, results, enqueued>>
  /\ UNCHANGED <<page, pend, ret, openPages, bmPage, browserInstance, bvars, calls, disc>>
  /\ UNCHANGED xvars
  /\ UNCHANGED yvars

\* what results keeps of a page: its links are read once, when the page is
\* collected (line 95), and by nothing after that
Stored(p) == [url |-> p.url, title |-> p.title, content |-> p.content, error |-> p.error]

SetLast(log, st) == [log EXCEPT ![Len(log)].status = st]

\* the fetch returned: the page is pushed and its links are enqueued
\* (lines 91-104)
Collect ==
  /\ pc = "fetch" /\ fpc = "returned"
  /\ results' = Append(results, Stored(ret.rec))
  /\ LET linkedPages == IF ShouldExpand(cur.currentDepth, depth)
                        THEN LinkedPages(ret.rec.links, visitedUrls, cur.currentDepth)
                        ELSE <<>>
     IN  /\ queue' = Push(queue, linkedPages)
         /\ enqueued' = enqueued \o From(cur.url, linkedPages)
  /\ fetchLog' = SetLast(fetchLog, "ok")
  /\ pc' = "loop"
  /\ cur' = NoEntry
  /\ fn' = "none" /\ fpc' = "idle" /\ furl' = 0 /\ ret' = NoOutcome
  /\ disc' = Max({disc} \cup Range(ret.rec.links))
  /\ UNCHANGED <<initialUrls, depth, maxPages, visitedUrls, dequeued>>
  /\ UNCHANGED <<page, pend, openPages, opened, bmPage, browserInstance, bvars, calls>>
  /\ UNCHANGED xvars
  /\ UNCHANGED yvars

\* the catch block records the failed page in results
CatchRecordsError ==
  /\ pc = "fetch" /\ fpc = "threw"
  /\ results' = Append(results, [url |-> cur.url, title |-> "Error", content |-> "",
                                  error |-> ret.err])
  /\ fetchLog' = SetLast(fetchLog, "failed")
  /\ pc' = "loop"
  /\ cur' = NoEntry
  /\ fn' = "none" /\ fpc' = "idle" /\ furl' = 0 /\ ret' = NoOutcome
  /\ UNCHANGED <<initialUrls, depth, maxPages, visitedUrls, queue,
                 enqueued, dequeued>>
  /\ UNCHANGED <<page, pend, openPages, opened, bmPage, browserInstance, bvars, calls, disc>>
  /\ UNCHANGED xvars
  /\ UNCHANGED yvars

\* the catch block ends the traversal
CatchAborts ==
  /\ pc = "fetch" /\ fpc = "threw"
  /\ fetchLog' = SetLast(fetchLog, "failed")
  /\ pc' = "done"
  /\ cur' = NoEntry
  /\ fn' = "none" /\ fpc' = "idle" /\ furl' = 0 /\ ret' = NoOutcome
  /\ UNCHANGED <<initialUrls, depth, maxPages, visitedUrls, results, queue,
                 enqueued, dequeued>>
  /\ UNCHANGED <<page, pend, openPages, opened, bmPage, browserInstance, bvars, calls, disc>>
  /\ UNCHANGED xvars
  /\ UNCHANGED yvars

\* the fetch threw: the error is logged and the loop goes on (lines 105-108)
Catch ==
  /\ pc = "fetch" /\ fpc = "threw"
  /\ fetchLog' = SetLast(fetchLog, "failed")
  /\ pc' = "loop"
  /\ cur' = NoEntry
  /\ fn' = "none" /\ fpc' = "idle" /\ furl' = 0 /\ ret' = NoOutcome
  /\ UNCHANGED <<initialUrls, depth, maxPages, visitedUrls, results, queue,
                 enqueued, dequeued>>
  /\ UNCHANGED <<page, pend, openPages, opened, bmPage, browserInstance, bvars, calls, disc>>
  /\ UNCHANGED xvars
  /\ UNCHANGED yvars

PerformDeepSearch == Return \/ Skip \/ Visit \/ Collect \/ Catch

FetchIdle ==
  /\ fn = "none" /\ fpc = "idle" /\ furl = 0 /\ page = NoPage
  /\ pend = NoOutcome /\ ret = NoOutcome /\ openPages = {} /\ opened = {}
  /\ bmPage = NoPage

ManagerAbsent ==
  /\ browser = NoBrowser /\ isInitializing = FALSE /\ initPromise = "none"

\* a call performDeepSearch(seeds, {depth, maxPages}); option 0 stands for an
\* absent (or zero) option
Init ==
  /\ initialUrls \in SeqsUpTo(Urls, MaxSeeds)
  /\ InOrderOfDiscovery(0, initialUrls)
  /\ \E d \in 0..MaxDepthOpt : depth = OrDefault(d, DefaultDepth)
  /\ \E m \in 0..MaxPagesOpt : maxPages = OrDefault(m, DefaultMaxPages)
  /\ visitedUrls = {}
  /\ results = <<>>
  /\ queue = SeedQueue(initialUrls)
  /\ pc = "loop"
  /\ cur = NoEntry
  /\ enqueued = From(0, SeedQueue(initialUrls))
  /\ dequeued = <<>>
  /\ fetchLog = <<>>
  /\ FetchIdle
  /\ browserInstance = NoBrowser
  /\ ManagerAbsent
  /\ calls = 0
  /\ disc = Max({0} \cup Range(initialUrls))
  /\ mgr = "none" /\ BrowsersIdle
  /\ HandlerIdle
  /\ LinksIdle
  /\ OthersIdle

Next == PerformDeepSearch \/ ExtractContentFromUrl

Spec == Init /\ [][Next]_vars

\* every await of the traversal settles (navigation runs under PAGE_TIMEOUT) and
\* the event loop then runs its continuation
LiveSpec == Spec /\ WF_vars(Next)

----------------------------------------------------------------------------
(* browser-manager: BrowserManager *)

\* getBrowser with this.browser set (lines 131-133)
ManagerGetBrowserCached ==
  /\ fn = "extractContent" /\ fpc = "getBrowser"
  /\ browser # NoBrowser
  /\ fpc' = "newPage"
  /\ UNCHANGED <<fn, furl, page, pend, ret, openPages, opened, bmPage>>
  /\ UNCHANGED <<tvars, browserInstance, bvars, calls, disc>>
  /\ UNCHANGED xvars
  /\ UNCHANGED yvars

\* getBrowser with no browser and no initialization in progress: the flag and
\* the promise are set and initBrowser is awaited (lines 135-144)
ManagerGetBrowserInit ==
  /\ fn = "extractContent" /\ fpc = "getBrowser"
  /\ browser = NoBrowser /\ ~isInitializing
  /\ isInitializing' = TRUE
  /\ initPromise' = "pending"
  /\ fpc' = "launch"
  /\ UNCHANGED <<fn, furl, page, pend, ret, openPages, opened, bmPage>>
  /\ UNCHANGED <<tvars, browserInstance, browser, calls, disc>>
  /\ UNCHANGED xvars
  /\ UNCHANGED yvars

\* initBrowser resolves: the browser is stored; finally clears flag and promise
ManagerLaunchOk ==
  /\ fn = "extractContent" /\ fpc = "launch"
  /\ browser' = 1
  /\ isInitializing' = FALSE
  /\ initPromise' = "none"
  /\ fpc' = "newPage"
  /\ UNCHANGED <<fn, furl, page, pend, ret, openPages, opened, bmPage>>
  /\ UNCHANGED <<tvars, browserInstance, calls, disc>>
  /\ UNCHANGED xvars
  /\ UNCHANGED yvars

\* initBrowser rejects: finally clears flag and promise, getBrowser and
\* newPage reject, and extractContent's catch block takes over
ManagerLaunchFails ==
  /\ fn = "extractContent" /\ fpc = "launch"
  /\ isInitializing' = FALSE
  /\ initPromise' = "none"
  /\ pend' = [threw |-> TRUE, rec |-> NoRecord, err |-> "launch"]
  /\ fpc' = "catch"
  /\ UNCHANGED <<fn, furl, page, ret, openPages, opened, bmPage>>
  /\ UNCHANGED <<tvars, browserInstance, browser, calls, disc>>
  /\ UNCHANGED xvars
  /\ UNCHANGED yvars

\* newPage: browser.newPage() resolves (line 183)
ManagerNewPageOk ==
  /\ fn = "extractContent" /\ fpc = "newPage"
  /\ bmPage' = FreshPage
  /\ openPages' = openPages \cup {FreshPage}
  /\ opened' = opened \cup {FreshPage}
  /\ fpc' = "configure"
  /\ UNCHANGED <<fn, furl, page, pend, ret>>
  /\ UNCHANGED <<tvars, browserInstance, bvars, calls, disc>>
  /\ UNCHANGED xvars
  /\ UNCHANGED yvars

\* newPage: browser.newPage() rejects (line 183)
ManagerNewPageFails ==
  /\ fn = "extractContent" /\ fpc = "newPage"
  /\ pend' = [threw |-> TRUE, rec |-> NoRecord, err |-> "newPage"]
  /\ fpc' = "catch"
  /\ UNCHANGED <<fn, furl, page, ret, openPages, opened, bmPage>>
  /\ UNCHANGED <<tvars, browserInstance, bvars, calls, disc>>
  /\ UNCHANGED xvars
  /\ UNCHANGED yvars

\* newPage: timeouts and user agent are set and the page is returned to
\* extractContent, which stores it in its page variable (lines 186-195, 29)
ManagerConfigureOk ==
  /\ fn = "extractContent" /\ fpc = "configure"
  /\ page' = bmPage
  /\ bmPage' = NoPage
  /\ fpc' = "try"
  /\ UNCHANGED <<fn, furl, pend, ret, openPages, opened>>
  /\ UNCHANGED <<tvars, browserInstance, bvars, calls, disc>>
  /\ UNCHANGED xvars
  /\ UNCHANGED yvars

\* newPage: setting a timeout or the user agent fails, so newPage rejects
\* without returning the page it opened (lines 186-193)
ManagerConfigureFails ==
  /\ fn = "extractContent" /\ fpc = "configure"
  /\ \E e \in {"setDefaultTimeout", "setUserAgent"} :
       pend' = [threw |-> TRUE, rec |-> NoRecord, err |-> e]
  /\ bmPage' = NoPage
  /\ fpc' = "catch"
  /\ UNCHANGED <<fn, furl, page, ret, openPages, opened>>
  /\ UNCHANGED <<tvars, browserInstance, bvars, calls, disc>>
  /\ UNCHANGED xvars
  /\ UNCHANGED yvars

----------------------------------------------------------------------------
(* content-extractor: ContentExtractor.extractContent *)

\* the record the catch block returns (lines 55-61)
ErrorRecord(u, e) ==
  [url |-> u, title |-> "Error", content |-> "", links |-> <<>>, error |-> e]

\* the catch block rethrows, as the one of extractContentFromUrl does
CatchRethrows(u, e) == [threw |-> TRUE, rec |-> NoRecord, err |-> e]

\* how the catch block ends: by returning the error record
CatchOutcome(u, e) == [threw |-> FALSE, rec |-> ErrorRecord(u, e), err |-> e]

\* goto, title and the extractions resolve: return the page (lines 33-52)
ExtractOk ==
  /\ fn = "extractContent" /\ fpc = "try"
  /\ \E l \in LinkLists :
       /\ InOrderOfDiscovery(disc, l)
       /\ pend' = [threw |-> FALSE, rec |-> PageContent(furl, l), err |-> NoError]
  /\ fpc' = "finally"
  /\ UNCHANGED <<fn, furl, page, ret, openPages, opened, bmPage>>
  /\ UNCHANGED <<tvars, browserInstance, bvars, calls, disc>>
  /\ UNCHANGED xvars
  /\ UNCHANGED yvars

\* goto, title or an extraction rejects (lines 33-45)
ExtractFails ==
  /\ fn = "extractContent" /\ fpc = "try"
  /\ \E e \in {"goto", "title", "extract"} :
       pend' = [threw |-> TRUE, rec |-> NoRecord, err |-> e]
  /\ fpc' = "catch"
  /\ UNCHANGED <<fn, furl, page, ret, openPages, opened, bmPage>>
  /\ UNCHANGED <<tvars, browserInstance, bvars, calls, disc>>
  /\ UNCHANGED xvars
  /\ UNCHANGED yvars

\* the catch block (lines 53-61)
ExtractCatch ==
  /\ fn = "extractContent" /\ fpc = "catch"
  /\ pend' = CatchOutcome(furl, pend.err)
  /\ fpc' = "finally"
  /\ UNCHANGED <<fn, furl, page, ret, openPages, opened, bmPage>>
  /\ UNCHANGED <<tvars, browserInstance, bvars, calls, disc>>
  /\ UNCHANGED xvars
  /\ UNCHANGED yvars

\* finally: if (page) page.close(), an error of close being swallowed; then
\* the call ends (lines 62-66)
ExtractFinally ==
  /\ fn = "extractContent" /\ fpc = "finally"
  /\ openPages' = IF page # NoPage THEN ClosePage(openPages, page) ELSE openPages
  /\ page' = NoPage
  /\ ret' = pend
  /\ pend' = NoOutcome
  /\ fpc' = IF pend.threw THEN "threw" ELSE "returned"
  /\ UNCHANGED <<fn, furl, opened, bmPage>>
  /\ UNCHANGED <<tvars, browserInstance, bvars, calls, disc>>
  /\ UNCHANGED xvars
  /\ UNCHANGED yvars

ExtractContent ==
  \/ ManagerGetBrowserCached \/ ManagerGetBrowserInit
  \/ ManagerLaunchOk \/ ManagerLaunchFails
  \/ ManagerNewPageOk \/ ManagerNewPageFails
  \/ ManagerConfigureOk \/ ManagerConfigureFails
  \/ ExtractOk \/ ExtractFails \/ ExtractCatch \/ ExtractFinally

----------------------------------------------------------------------------
(* The two fetchers, called one call after the other *)

Fetchers == {"extractContentFromUrl", "extractContent"}

\* a caller awaits f(u)
Call ==
  /\ pc = "none" /\ fpc = "idle"
  /\ calls < MaxCalls
  /\ \E f \in Fetchers, u \in Urls :
       /\ fn' = f
       /\ furl' = u
  /\ fpc' = "getBrowser"
  /\ opened' = {}
  /\ UNCHANGED <<page, pend, ret, openPages, bmPage>>
  /\ UNCHANGED <<tvars, browserInstance, bvars, calls, disc>>
  /\ UNCHANGED xvars
  /\ UNCHANGED yvars

\* the caller's await settles
Settle ==
  /\ pc = "none" /\ fpc \in {"returned", "threw"}
  /\ calls' = calls + 1
  /\ fn' = "none" /\ fpc' = "idle" /\ furl' = 0 /\ ret' = NoOutcome
  /\ UNCHANGED <<page, pend, openPages, opened, bmPage>>
  /\ UNCHANGED <<tvars, browserInstance, bvars, disc>>
  /\ UNCHANGED xvars
  /\ UNCHANGED yvars

FetchInit ==
  /\ initialUrls = <<>>
  /\ depth = DefaultDepth
  /\ maxPages = DefaultMaxPages
  /\ visitedUrls = {}
  /\ results = <<>>
  /\ queue = <<>>
  /\ pc = "none"
  /\ cur = NoEntry
  /\ enqueued = <<>>
  /\ dequeued = <<>>
  /\ fetchLog = <<>>
  /\ FetchIdle
  /\ browserInstance = NoBrowser
  /\ ManagerAbsent
  /\ calls = 0
  /\ disc = 0
  /\ mgr = "none" /\ BrowsersIdle
  /\ HandlerIdle
  /\ LinksIdle
  /\ OthersIdle

FetchNext == Call \/ Settle \/ ExtractContentFromUrl \/ ExtractContent

FetchSpec == FetchInit /\ [][FetchNext]_vars

----------------------------------------------------------------------------
(* utils/browser and BrowserManager under concurrent callers (BrowserSpec).
   A step is what the event loop runs between two events: a settled launch
   runs the continuations that await it before any other event is handled. *)

InFlight == {b \in Launches : chromium[b] = "launching"}

Live == {b \in Launches : chromium[b] = "connected"}

Started == {b \in Launches : chromium[b] # "none"}

\* the next launch, when the run may still start one
NextLaunch == Cardinality(Started) + 1

CanCall(c) == ~exited /\ gpc[c] \in {"idle", "returned", "threw"} /\ gets < MaxGets

Returns(c, b, f, l, ch) ==
  [got EXCEPT ![c] = [instance |-> b, connected |-> ch[b] = "connected",
                      found |-> f, launched |-> l]]

\* the listener leaves the reference in place
OnDisconnectedKeeps(ref) == ref

\* the 'disconnected' listener: browserInstance = null / this.browser = null
OnDisconnected(ref) == NoBrowser

\* getBrowser with browserInstance set (lines 54, 79)
UtilsGetBrowserCached(c) ==
  /\ mgr = "utils" /\ CanCall(c)
  /\ browserInstance # NoBrowser
  /\ gets' = gets + 1
  /\ got' = Returns(c, browserInstance, browserInstance, FALSE, chromium)
  /\ gpc' = [gpc EXCEPT ![c] = "returned"]
  /\ UNCHANGED <<mgr, held, chromium, initLaunch, closing, exited>>
  /\ UNCHANGED <<tvars, fvars, browserInstance, bvars, calls, disc, hvars, lvars>>
  /\ UNCHANGED yvars

\* getBrowser with browserInstance null: puppeteer.launch is called and
\* awaited (lines 54-70)
UtilsGetBrowserLaunch(c) ==
  /\ mgr = "utils" /\ CanCall(c)
  /\ browserInstance = NoBrowser
  /\ NextLaunch \in Launches
  /\ gets' = gets + 1
  /\ chromium' = [chromium EXCEPT ![NextLaunch] = "launching"]
  /\ held' = [held EXCEPT ![c] = NextLaunch]
  /\ got' = [got EXCEPT ![c] = NoReturn]
  /\ gpc' = [gpc EXCEPT ![c] = "launching"]
  /\ UNCHANGED <<mgr, initLaunch, closing, exited>>
  /\ UNCHANGED <<tvars, fvars, browserInstance, bvars, calls, disc, hvars, lvars>>
  /\ UNCHANGED yvars

\* the launch resolves: the instance is stored, its listener is registered
\* and the instance is returned (lines 70-79)
UtilsLaunchResolves(c) ==
  /\ mgr = "utils" /\ ~exited /\ gpc[c] = "launching"
  /\ chromium' = [chromium EXCEPT ![held[c]] = "connected"]
  /\ browserInstance' = held[c]
  /\ got' = Returns(c, held[c], NoBrowser, TRUE, chromium')
  /\ held' = [held EXCEPT ![c] = NoBrowser]
  /\ gpc' = [gpc EXCEPT ![c] = "returned"]
  /\ UNCHANGED <<mgr, gets, initLaunch, closing, exited>>
  /\ UNCHANGED <<tvars, fvars, bvars, calls, disc, hvars, lvars>>
  /\ UNCHANGED yvars

\* the launch rejects: getBrowser throws (line 70)
UtilsLaunchRejects(c) ==
  /\ mgr = "utils" /\ ~exited /\ gpc[c] = "launching"
  /\ chromium' = [chromium EXCEPT ![held[c]] = "failed"]
  /\ held' = [held EXCEPT ![c] = NoBrowser]
  /\ gpc' = [gpc EXCEPT ![c] = "threw"]
  /\ UNCHANGED <<mgr, got, gets, initLaunch, closing, exited>>
  /\ UNCHANGED <<tvars, fvars, browserInstance, bvars, calls, disc, hvars, lvars>>
  /\ UNCHANGED yvars

\* a browser reports its disconnection: the listener registered at line 73
\* runs
UtilsDisconnected(b) ==
  /\ mgr = "utils" /\ ~exited
  /\ chromium[b] = "connected"
  /\ chromium' = [chromium EXCEPT ![b] = "disconnected"]
  /\ browserInstance' = OnDisconnected(browserInstance)
  /\ UNCHANGED <<mgr, gpc, held, got, gets, initLaunch, closing, exited>>
  /\ UNCHANGED <<tvars, fvars, bvars, calls, disc, hvars, lvars>>
  /\ UNCHANGED yvars

\* SIGINT / SIGTERM with no browserInstance: closeBrowser does nothing and
\* each handler calls process.exit (logger.ts 85-102, server.ts 63-70)
SignalNoBrowser ==
  /\ mgr = "utils" /\ ~exited /\ closing = NoBrowser
  /\ browserInstance = NoBrowser
  /\ exited' = TRUE
  /\ UNCHANGED <<mgr, gpc, held, got, gets, chromium, initLaunch, closing>>
  /\ UNCHANGED <<tvars, fvars, browserInstance, bvars, calls, disc, hvars, lvars>>
  /\ UNCHANGED yvars

\* SIGINT / SIGTERM with a browserInstance: the handlers call close() on it
\* and await it (lines 86-88)
SignalCloseBrowser ==
  /\ mgr = "utils" /\ ~exited /\ closing = NoBrowser
  /\ browserInstance # NoBrowser
  /\ closing' = browserInstance
  /\ UNCHANGED <<mgr, gpc, held, got, gets, chromium, initLaunch, exited>>
  /\ UNCHANGED <<tvars, fvars, browserInstance, bvars, calls, disc, hvars, lvars>>
  /\ UNCHANGED yvars

\* close() resolves once the browser is gone: the reference is cleared and
\* process.exit is called (lines 89, 96, 101)
CloseBrowserExits ==
  /\ mgr = "utils" /\ ~exited /\ closing # NoBrowser
  /\ chromium[closing] = "disconnected"
  /\ browserInstance' = NoBrowser
  /\ exited' = TRUE
  /\ UNCHANGED <<mgr, gpc, held, got, gets, chromium, initLaunch, closing>>
  /\ UNCHANGED <<tvars, fvars, bvars, calls, disc, hvars, lvars>>
  /\ UNCHANGED yvars

UtilsBrowser ==
  \/ \E c \in Callers : \/ UtilsGetBrowserCached(c)
                        \/ UtilsGetBrowserLaunch(c)
                        \/ UtilsLaunchResolves(c)
                        \/ UtilsLaunchRejects(c)
  \/ \E b \in Launches : UtilsDisconnected(b)
  \/ SignalNoBrowser
  \/ SignalCloseBrowser
  \/ CloseBrowserExits

\* only the call that started launch b settles with it
AwaitingOnlyInitializer(b) == {c \in Callers : held[c] = b /\ gpc[c] = "launching"}

\* the callers whose getBrowser call settles with launch b
Awaiting(b) == {c \in Callers : held[c] = b /\ gpc[c] # "closing"}

\* BrowserManager.getBrowser with this.browser set (lines 131-133)
BrowserManagerGetCached(c) ==
  /\ mgr = "manager" /\ CanCall(c)
  /\ browser # NoBrowser
  /\ gets' = gets + 1
  /\ got' = Returns(c, browser, browser, FALSE, chromium)
  /\ gpc' = [gpc EXCEPT ![c] = "returned"]
  /\ UNCHANGED <<mgr, held, chromium, initLaunch, closing, exited>>
  /\ UNCHANGED <<tvars, fvars, browserInstance, bvars, calls, disc, hvars, lvars>>
  /\ UNCHANGED yvars

\* getBrowser while an initialization is in progress: initPromise is returned
\* (lines 135-138)
BrowserManagerGetPending(c) ==
  /\ mgr = "manager" /\ CanCall(c)
  /\ browser = NoBrowser /\ isInitializing
  /\ gets' = gets + 1
  /\ held' = [held EXCEPT ![c] = initLaunch]
  /\ got' = [got EXCEPT ![c] = NoReturn]
  /\ gpc' = [gpc EXCEPT ![c] = "waiting"]
  /\ UNCHANGED <<mgr, chromium, initLaunch, closing, exited>>
  /\ UNCHANGED <<tvars, fvars, browserInstance, bvars, calls, disc, hvars, lvars>>
  /\ UNCHANGED yvars

\* getBrowser with no browser and no initialization in progress: the flag and
\* the promise are set and initBrowser calls puppeteer.launch
\* (lines 140-144, 160)
BrowserManagerGetInit(c) ==
  /\ mgr = "manager" /\ CanCall(c)
  /\ browser = NoBrowser /\ ~isInitializing
  /\ NextLaunch \in Launches
  /\ gets' = gets + 1
  /\ isInitializing' = TRUE
  /\ initPromise' = "pending"
  /\ initLaunch' = NextLaunch
  /\ chromium' = [chromium EXCEPT ![NextLaunch] = "launching"]
  /\ held' = [held EXCEPT ![c] = NextLaunch]
  /\ got' = [got EXCEPT ![c] = NoReturn]
  /\ gpc' = [gpc EXCEPT ![c] = "launching"]
  /\ UNCHANGED <<mgr, closing, exited, browser>>
  /\ UNCHANGED <<tvars, fvars, browserInstance, calls, disc, hvars, lvars>>
  /\ UNCHANGED yvars

\* the launch resolves: initBrowser registers the listener, the initializing
\* call stores the browser and resets the flag and the promise, and every
\* call that awaits initPromise returns the browser (lines 143-149, 160-171)
BrowserManagerInitResolves ==
  /\ mgr = "manager" /\ ~exited
  /\ initLaunch # NoBrowser
  /\ chromium' = [chromium EXCEPT ![initLaunch] = "connected"]
  /\ browser' = initLaunch
  /\ isInitializing' = FALSE
  /\ initPromise' = "none"
  /\ got' = [c \in Callers |->
               IF c \in Awaiting(initLaunch)
               THEN [instance |-> initLaunch, connected |-> TRUE,
                     found |-> NoBrowser, launched |-> gpc[c] = "launching"]
               ELSE got[c]]
  /\ gpc' = [c \in Callers |-> IF c \in Awaiting(initLaunch) THEN "returned" ELSE gpc[c]]
  /\ held' = [c \in Callers |-> IF c \in Awaiting(initLaunch) THEN NoBrowser ELSE held[c]]
  /\ initLaunch' = NoBrowser
  /\ UNCHANGED <<mgr, gets, closing, exited>>
  /\ UNCHANGED <<tvars, fvars, browserInstance, calls, disc, hvars, lvars>>
  /\ UNCHANGED yvars

\* the launch rejects: initBrowser rethrows, the finally block resets the flag
\* and the promise, and every call that awaits initPromise throws
\* (lines 145-149, 172-175)
BrowserManagerInitRejects ==
  /\ mgr = "manager" /\ ~exited
  /\ initLaunch # NoBrowser
  /\ chromium' = [chromium EXCEPT ![initLaunch] = "failed"]
  /\ isInitializing' = FALSE
  /\ initPromise' = "none"
  /\ gpc' = [c \in Callers |-> IF c \in Awaiting(initLaunch) THEN "threw" ELSE gpc[c]]
  /\ held' = [c \in Callers |-> IF c \in Awaiting(initLaunch) THEN NoBrowser ELSE held[c]]
  /\ initLaunch' = NoBrowser
  /\ UNCHANGED <<mgr, got, gets, closing, exited, browser>>
  /\ UNCHANGED <<tvars, fvars, browserInstance, calls, disc, hvars, lvars>>
  /\ UNCHANGED yvars

\* a browser reports its disconnection: the listener registered at line 166
\* runs
BrowserManagerDisconnected(b) ==
  /\ mgr = "manager" /\ ~exited
  /\ chromium[b] = "connected"
  /\ chromium' = [chromium EXCEPT ![b] = "disconnected"]
  /\ browser' = OnDisconnected(browser)
  /\ UNCHANGED <<mgr, gpc, held, got, gets, initLaunch, closing, exited>>
  /\ UNCHANGED <<isInitializing, initPromise>>
  /\ UNCHANGED <<tvars, fvars, browserInstance, calls, disc, hvars, lvars>>
  /\ UNCHANGED yvars

BrowserManagerShared ==
  \/ \E c \in Callers : \/ BrowserManagerGetCached(c)
                        \/ BrowserManagerGetPending(c)
                        \/ BrowserManagerGetInit(c)
  \/ BrowserManagerInitResolves
  \/ BrowserManagerInitRejects
  \/ \E b \in Launches : BrowserManagerDisconnected(b)

\* a caller that is not inside a call may call closeBrowser
CanClose(c) == ~exited /\ gpc[c] \in {"idle", "returned", "threw"} /\ closes < MaxCloses

Closed(c, b, ref, ch, t) ==
  [closed EXCEPT ![c] = [ended |-> TRUE, target |-> b, reference |-> ref,
                         state |-> IF b = NoBrowser THEN "none" ELSE ch[b],
                         threw |-> t]]

\* closeBrowser with no browserInstance: nothing is done (logger.ts 85-91)
UtilsCloseBrowserAbsent(c) ==
  /\ mgr = "utils" /\ CanClose(c)
  /\ browserInstance = NoBrowser
  /\ closes' = closes + 1
  /\ closed' = Closed(c, NoBrowser, browserInstance, chromium, FALSE)
  /\ UNCHANGED <<gvars, svars, pvars, dvars>>
  /\ UNCHANGED <<tvars, fvars, browserInstance, bvars, calls, disc, hvars, lvars>>

\* closeBrowser with a browserInstance: close() is called on it and awaited
\* (lines 86-88)
UtilsCloseBrowserCall(c) ==
  /\ mgr = "utils" /\ CanClose(c)
  /\ browserInstance # NoBrowser
  /\ closes' = closes + 1
  /\ closed' = [closed EXCEPT ![c] = NotClosed]
  /\ held' = [held EXCEPT ![c] = browserInstance]
  /\ gpc' = [gpc EXCEPT ![c] = "closing"]
  /\ UNCHANGED <<mgr, got, gets, chromium, initLaunch, closing, exited, svars, pvars, dvars>>
  /\ UNCHANGED <<tvars, fvars, browserInstance, bvars, calls, disc, hvars, lvars>>

\* close() resolves once the browser is gone: the reference is cleared
\* (line 89)
UtilsCloseResolves(c) ==
  /\ mgr = "utils" /\ ~exited /\ gpc[c] = "closing"
  /\ chromium[held[c]] = "disconnected"
  /\ browserInstance' = NoBrowser
  /\ closed' = Closed(c, held[c], browserInstance', chromium, FALSE)
  /\ held' = [held EXCEPT ![c] = NoBrowser]
  /\ gpc' = [gpc EXCEPT ![c] = "idle"]
  /\ UNCHANGED <<mgr, got, gets, chromium, initLaunch, closing, exited, closes, svars, pvars, dvars>>
  /\ UNCHANGED <<tvars, fvars, bvars, calls, disc, hvars, lvars>>

\* close() rejects: closeBrowser throws at line 88
UtilsCloseRejects(c) ==
  /\ mgr = "utils" /\ ~exited /\ gpc[c] = "closing"
  /\ closed' = Closed(c, held[c], browserInstance, chromium, TRUE)
  /\ held' = [held EXCEPT ![c] = NoBrowser]
  /\ gpc' = [gpc EXCEPT ![c] = "idle"]
  /\ UNCHANGED <<mgr, got, gets, chromium, initLaunch, closing, exited, closes, svars, pvars, dvars>>
  /\ UNCHANGED <<tvars, fvars, browserInstance, bvars, calls, disc, hvars, lvars>>

UtilsCloseBrowser ==
  \E c \in Callers : \/ UtilsCloseBrowserAbsent(c)
                     \/ UtilsCloseBrowserCall(c)
                     \/ UtilsCloseResolves(c)
                     \/ UtilsCloseRejects(c)

\* BrowserManager.closeBrowser with no browser: nothing is done
\* (deep-search.ts 201-211)
BrowserManagerCloseAbsent(c) ==
  /\ mgr = "manager" /\ CanClose(c)
  /\ browser = NoBrowser
  /\ closes' = closes + 1
  /\ closed' = Closed(c, NoBrowser, browser, chromium, FALSE)
  /\ UNCHANGED <<gvars, svars, pvars, dvars>>
  /\ UNCHANGED <<tvars, fvars, browserInstance, bvars, calls, disc, hvars, lvars>>

\* BrowserManager.closeBrowser with a browser: close() is called on it and
\* awaited (lines 202-204)
BrowserManagerCloseCall(c) ==
  /\ mgr = "manager" /\ CanClose(c)
  /\ browser # NoBrowser
  /\ closes' = closes + 1
  /\ closed' = [closed EXCEPT ![c] = NotClosed]
  /\ held' = [held EXCEPT ![c] = browser]
  /\ gpc' = [gpc EXCEPT ![c] = "closing"]
  /\ UNCHANGED <<mgr, got, gets, chromium, initLaunch, closing, exited, svars, pvars, dvars>>
  /\ UNCHANGED <<tvars, fvars, browserInstance, bvars, calls, disc, hvars, lvars>>

\* close() resolves once the browser is gone: the reference is cleared
\* (lines 204-206)
BrowserManagerCloseResolves(c) ==
  /\ mgr = "manager" /\ ~exited /\ gpc[c] = "closing"
  /\ chromium[held[c]] = "disconnected"
  /\ browser' = NoBrowser
  /\ closed' = Closed(c, held[c], browser', chromium, FALSE)
  /\ held' = [held EXCEPT ![c] = NoBrowser]
  /\ gpc' = [gpc EXCEPT ![c] = "idle"]
  /\ UNCHANGED <<mgr, got, gets, chromium, initLaunch, closing, exited, closes, svars, pvars, dvars>>
  /\ UNCHANGED <<isInitializing, initPromise>>
  /\ UNCHANGED <<tvars, fvars, browserInstance, calls, disc, hvars, lvars>>

\* close() rejects: the catch block logs the error and the call returns
\* (lines 207-209)
BrowserManagerCloseRejects(c) ==
  /\ mgr = "manager" /\ ~exited /\ gpc[c] = "closing"
  /\ closed' = Closed(c, held[c], browser, chromium, FALSE)
  /\ held' = [held EXCEPT ![c] = NoBrowser]
  /\ gpc' = [gpc EXCEPT ![c] = "idle"]
  /\ UNCHANGED <<mgr, got, gets, chromium, initLaunch, closing, exited, closes, svars, pvars, dvars>>
  /\ UNCHANGED <<tvars, fvars, browserInstance, bvars, calls, disc, hvars, lvars>>

BrowserManagerCloseBrowser ==
  \E c \in Callers : \/ BrowserManagerCloseAbsent(c)
                     \/ BrowserManagerCloseCall(c)
                     \/ BrowserManagerCloseResolves(c)
                     \/ BrowserManagerCloseRejects(c)

\* no traversal and no fetch
TraversalIdle ==
  /\ initialUrls = <<>>
  /\ depth = DefaultDepth
  /\ maxPages = DefaultMaxPages
  /\ visitedUrls = {}
  /\ results = <<>>
  /\ queue = <<>>
  /\ pc = "none"
  /\ cur = NoEntry
  /\ enqueued = <<>>
  /\ dequeued = <<>>
  /\ fetchLog = <<>>
  /\ FetchIdle
  /\ calls = 0
  /\ disc = 0

\* the module state of utils/browser (line 48) or a new BrowserManager
\* (lines 111-113), with callers that have not called yet
BrowserInit ==
  /\ TraversalIdle
  /\ browserInstance = NoBrowser
  /\ ManagerAbsent
  /\ mgr \in {"utils", "manager"}
  /\ BrowsersIdle
  /\ HandlerIdle
  /\ LinksIdle
  /\ SelectIdle
  /\ InvocationsIdle
  /\ ServiceIdle
  /\ closes = 0
  /\ closed = [c \in Callers |-> NotClosed]

BrowserNext == UtilsBrowser \/ BrowserManagerShared

BrowserSpec == BrowserInit /\ [][BrowserNext]_vars

\* the managers with closeBrowser called by the callers, too
ShutdownNext == BrowserNext \/ UtilsCloseBrowser \/ BrowserManagerCloseBrowser

ShutdownSpec == BrowserInit /\ [][ShutdownNext]_vars

----------------------------------------------------------------------------
(* tools/deep-search: deepSearchTool.handler (HandlerSpec, ClampSpec) *)

Digit == <<"0", "1", "2", "3", "4", "5", "6", "7", "8", "9">>

\* String(n) of a natural number: its decimal digits
RECURSIVE DigitsOf(_)
DigitsOf(n) ==
  IF n < 10 THEN <<Digit[n + 1]>> ELSE Append(DigitsOf(n \div 10), Digit[(n % 10) + 1])

\* String(n) of an integer (below 10^21 in magnitude)
StringOf(n) == IF n < 0 THEN <<"-">> \o DigitsOf(-n) ELSE DigitsOf(n)

NaN == [nan |-> TRUE, value |-> 0]

Number(v) == [nan |-> FALSE, value |-> v]

IsDigit(ch) == \E d \in 1..10 : Digit[d] = ch

DigitValue(ch) == (CHOOSE d \in 1..10 : Digit[d] = ch) - 1

\* the value of the longest prefix of digits of s, read after acc
RECURSIVE ReadDigits(_, _)
ReadDigits(s, acc) ==
  IF s = <<>> \/ ~IsDigit(Head(s)) THEN acc
  ELSE ReadDigits(Tail(s), 10 * acc + DigitValue(Head(s)))

\* parseInt(s): an optional sign, then the longest prefix of digits; NaN when
\* there is no digit
ParseInt(s) ==
  LET signed == s # <<>> /\ Head(s) \in {"-", "+"}
      body == IF signed THEN Tail(s) ELSE s
      magnitude == ReadDigits(body, 0)
  IN  IF body = <<>> \/ ~IsDigit(Head(body)) THEN NaN
      ELSE IF signed /\ Head(s) = "-" THEN Number(-magnitude)
      ELSE Number(magnitude)

\* n || dflt: NaN and 0 are falsy
NumberOr(n, dflt) == IF n.nan \/ n.value = 0 THEN dflt ELSE n.value

\* const { results = 3 } = params: the default stands for an absent argument
Destructured(arg, dflt) == IF arg.given THEN arg.value ELSE dflt

Min2(a, b) == IF a < b THEN a ELSE b

Max2(a, b) == IF a > b THEN a ELSE b

\* Math.min(Math.max(1, parseInt(String(results)) || 3), 10) (line 28)
MaxResultsOf(arg) ==
  Min2(Max2(ParamFloor,
            NumberOr(ParseInt(StringOf(Destructured(arg, DefaultResults))), DefaultResults)),
       ResultsCap)

\* the floor is left out
MaxDepthNoFloor(arg) ==
  Min2(NumberOr(ParseInt(StringOf(Destructured(arg, DefaultDepthArg))), DefaultDepthArg),
       DepthCap)

\* Math.min(Math.max(1, parseInt(String(depth)) || 1), 3) (line 29)
MaxDepthOf(arg) ==
  Min2(Max2(ParamFloor,
            NumberOr(ParseInt(StringOf(Destructured(arg, DefaultDepthArg))), DefaultDepthArg)),
       DepthCap)

\* the parameters are validated and capped (lines 25-31)
HandlerValidate ==
  /\ hpc = "start"
  /\ maxResults' = MaxResultsOf(params.results)
  /\ maxDepth' = MaxDepthOf(params.depth)
  /\ hpc' = "search"
  /\ UNCHANGED <<params, searched, response>>
  /\ UNCHANGED <<tvars, fvars, browserInstance, bvars, calls, disc, gvars, lvars>>
  /\ UNCHANGED yvars

\* the catch block rethrows
HandlerCatchRethrows(e) ==
  [isError |-> FALSE, kind |-> "none", pages |-> <<>>, message |-> e, threw |-> TRUE]

\* the catch block returns a report
HandlerCatchReports(e) ==
  [isError |-> FALSE, kind |-> "report", pages |-> <<>>, message |-> NoError,
   threw |-> FALSE]

\* the catch block: an error-flagged response with the message (lines 88-100)
HandlerCatch(e) ==
  [isError |-> TRUE, kind |-> "error", pages |-> <<>>, message |-> e, threw |-> FALSE]

\* searchWithBrave throws (the request fails, the status is not ok or the body
\* is not JSON) and the handler catches it (lines 35, 88-100; brave-search.ts
\* 41-70)
SearchFails ==
  /\ hpc = "search"
  /\ searched' = "failed"
  /\ response' = HandlerCatch("Brave Search API error")
  /\ hpc' = "returned"
  /\ UNCHANGED <<params, maxResults, maxDepth>>
  /\ UNCHANGED <<tvars, fvars, browserInstance, bvars, calls, disc, gvars, lvars>>
  /\ UNCHANGED yvars

\* the search finds nothing (lines 40-49)
SearchEmpty ==
  /\ hpc = "search"
  /\ searched' = "empty"
  /\ response' = [isError |-> FALSE, kind |-> "notice", pages |-> <<>>,
                  message |-> NoError, threw |-> FALSE]
  /\ hpc' = "returned"
  /\ UNCHANGED <<params, maxResults, maxDepth>>
  /\ UNCHANGED <<tvars, fvars, browserInstance, bvars, calls, disc, gvars, lvars>>
  /\ UNCHANGED yvars

\* the search returns results and performDeepSearch is called on the URLs of
\* all of them: count is sent to the API, the list that comes back is not cut
\* to it (lines 35-58; brave-search.ts 33-35, 56-63; part_001 lines 64-76)
SearchOk ==
  /\ hpc = "search"
  /\ searched' = "ok"
  /\ \E urls \in SeqsUpTo(Urls, MaxSeeds) :
       /\ urls # <<>>
       /\ InOrderOfDiscovery(0, urls)
       /\ initialUrls' = urls
       /\ queue' = SeedQueue(urls)
       /\ enqueued' = From(0, SeedQueue(urls))
       /\ disc' = Max({0} \cup Range(urls))
  /\ depth' = OrDefault(maxDepth, DefaultDepth)
  /\ maxPages' = OrDefault(maxResults * maxDepth, DefaultMaxPages)
  /\ visitedUrls' = {}
  /\ results' = <<>>
  /\ pc' = "loop"
  /\ hpc' = "performDeepSearch"
  /\ UNCHANGED <<cur, dequeued, fetchLog>>
  /\ UNCHANGED <<params, maxResults, maxDepth, response>>
  /\ UNCHANGED <<fvars, browserInstance, bvars, calls, gvars, lvars>>
  /\ UNCHANGED yvars

\* performDeepSearch returned: the pages are formatted into one text block
\* (lines 61-87)
HandlerReport ==
  /\ hpc = "performDeepSearch" /\ pc = "done"
  /\ response' = [isError |-> FALSE, kind |-> "report",
                  pages |-> [i \in 1..Len(results) |-> results[i].url],
                  message |-> NoError, threw |-> FALSE]
  /\ hpc' = "returned"
  /\ UNCHANGED <<params, maxResults, maxDepth, searched>>
  /\ UNCHANGED <<tvars, fvars, browserInstance, bvars, calls, disc, gvars, lvars>>
  /\ UNCHANGED yvars

Handler == HandlerValidate \/ SearchFails \/ SearchEmpty \/ SearchOk \/ HandlerReport

\* the arguments of a tool call
Args(lo, hi) == {Absent} \cup {Arg(v) : v \in lo..hi}

\* a tool call: handler(params)
HandlerCalled ==
  /\ TraversalIdle
  /\ browserInstance = NoBrowser
  /\ ManagerAbsent
  /\ mgr = "none" /\ BrowsersIdle
  /\ hpc = "start"
  /\ maxResults = 0 /\ maxDepth = 0
  /\ searched = "none"
  /\ response = NoResponse
  /\ LinksIdle
  /\ OthersIdle

HandlerInit ==
  /\ HandlerCalled
  /\ params \in [results : Args(0, MaxResultsOpt), depth : Args(0, MaxDepthOpt)]

HandlerNext == Handler \/ PerformDeepSearch \/ ExtractContentFromUrl

HandlerSpec == HandlerInit /\ [][HandlerNext]_vars

\* the validation of the arguments (lines 25-29) over a range of integers
ClampInit ==
  /\ HandlerCalled
  /\ params \in [results : Args(-ParamRange, ParamRange),
                 depth : Args(-ParamRange, ParamRange)]

ClampNext == HandlerValidate

ClampSpec == ClampInit /\ [][ClampNext]_vars

----------------------------------------------------------------------------
(* extractLinks of utils/content-extractor and of ContentExtractor (LinkSpec).
   An href is the sequence of the lexical parts of the attribute text, a URL
   is a record of its components. *)

\* window.location: the page the anchors are on
Location == [scheme |-> "https", host |-> "//site", path |-> "/page", frag |-> ""]

\* the scheme a leading part of an href denotes ("" when it is no scheme);
\* the URL parser lowercases it
SchemeOf(part) ==
  CASE part \in {"javascript:", "JavaScript:"} -> "javascript"
    [] part = "mailto:" -> "mailto"
    [] part = "tel:" -> "tel"
    [] part = "https:" -> "https"
    [] part = "ftp:" -> "ftp"
    [] OTHER -> ""

\* the href attributes of the model
Hrefs ==
  { <<>>,
    <<"javascript:", "void(0)">>, <<"JavaScript:", "void(0)">>,
    <<"mailto:", "a@b">>, <<"tel:", "123">>,
    <<"#", "top">>, <<" ", "#", "top">>,
    <<"/other">>, <<"/image.jpg">>,
    <<"https:", "//site", "/other">>, <<"https:", "//elsewhere", "/x">>,
    <<"ftp:", "//site", "/file">> }

\* anchor.textContent, by its trimmed length
Texts == {"", "x", "Text"}

TextLength(t) == CASE t = "" -> 0 [] t = "x" -> 1 [] OTHER -> 4

Anchors == [href : Hrefs, text : Texts]

\* href.startsWith(prefix) for a prefix that is one lexical part
StartsWith(href, prefix) == href # <<>> /\ Head(href) = prefix

\* the URL parser strips leading whitespace
RECURSIVE Stripped(_)
Stripped(href) ==
  IF href # <<>> /\ Head(href) = " " THEN Stripped(Tail(href)) ELSE href

\* new URL(href, window.location.href)
NewURL(href) ==
  LET h == Stripped(href)
  IN  IF h = <<>> THEN Location
      ELSE IF SchemeOf(Head(h)) \in {"https", "ftp"}
           THEN [scheme |-> SchemeOf(Head(h)), host |-> h[2], path |-> h[3], frag |-> ""]
      ELSE IF SchemeOf(Head(h)) # ""
           THEN [scheme |-> SchemeOf(Head(h)), host |-> "", path |-> h[2], frag |-> ""]
      ELSE IF Head(h) = "#"
           THEN [Location EXCEPT !.frag = h[2]]
      ELSE [Location EXCEPT !.path = h[1]]

\* url.startsWith('http'): https is the only scheme of the model that does
StartsWithHttp(url) == url.scheme = "https"

\* url.startsWith(window.location.origin)
StartsWithOrigin(url) == url.scheme = Location.scheme /\ url.host = Location.host

\* a link that is returned; href is the attribute it was made from
Link(url, t, href) == [url |-> url, text |-> t, href |-> href]

\* utils extractLinks: the test on the attribute (lines 81-84)
IsSpecialLink(href) ==
  \/ href = <<>>
  \/ StartsWith(href, "javascript:")
  \/ StartsWith(href, "mailto:")
  \/ StartsWith(href, "tel:")
  \/ StartsWith(href, "#")

\* utils extractLinks: the forEach over the first n anchors (lines 77-94); the
\* text falls back to the URL, so it is never empty
RECURSIVE UtilsLinks(_, _)
UtilsLinks(as, n) ==
  IF n = 0 THEN <<>>
  ELSE LET before == UtilsLinks(as, n - 1)
           href == as[n].href
           url == NewURL(href)
       IN  IF IsSpecialLink(href) THEN before
           ELSE IF StartsWithOrigin(url) THEN Append(before, Link(url, as[n].text, href))
           ELSE before

\* ContentExtractor.extractLinks: URLs that are not content pages
\* (lines 216-227); includes and endsWith read the whole URL text
NotContentPage(url) == url.frag = "" /\ url.path = "/image.jpg"

\* ContentExtractor.extractLinks: the forEach over the first n anchors
\* (lines 205-239); seen is the set of the URLs of the links
RECURSIVE ExtractorLinks(_, _)
ExtractorLinks(as, n) ==
  IF n = 0 THEN <<>>
  ELSE LET before == ExtractorLinks(as, n - 1)
           seen == {before[i].url : i \in 1..Len(before)}
           href == as[n].href
           url == NewURL(href)
       IN  IF href = <<>> THEN before
           ELSE IF ~StartsWithHttp(url) \/ url \in seen THEN before
           ELSE IF NotContentPage(url) THEN before
           ELSE IF TextLength(as[n].text) > 1
                THEN Append(before, Link(url, as[n].text, href))
           ELSE before

\* links.slice(0, 10)
Slice(l, n) == SubSeq(l, 1, Min2(Len(l), n))

\* utils/content-extractor extractLinks(page)
UtilsExtractLinks ==
  /\ lfn = "utils" /\ lpc = "start"
  /\ extracted' = UtilsLinks(anchors, Len(anchors))
  /\ lpc' = "done"
  /\ UNCHANGED <<anchors, lfn>>
  /\ UNCHANGED <<tvars, fvars, browserInstance, bvars, calls, disc, gvars, hvars>>
  /\ UNCHANGED yvars

\* ContentExtractor.extractLinks(page)
ContentExtractorExtractLinks ==
  /\ lfn = "ContentExtractor" /\ lpc = "start"
  /\ extracted' = Slice(ExtractorLinks(anchors, Len(anchors)), LinkCap)
  /\ lpc' = "done"
  /\ UNCHANGED <<anchors, lfn>>
  /\ UNCHANGED <<tvars, fvars, browserInstance, bvars, calls, disc, gvars, hvars>>
  /\ UNCHANGED yvars

\* a page with its anchors in document order, and the function applied to it
LinkInit ==
  /\ TraversalIdle
  /\ browserInstance = NoBrowser
  /\ ManagerAbsent
  /\ mgr = "none" /\ BrowsersIdle
  /\ HandlerIdle
  /\ anchors \in SeqsUpTo(Anchors, MaxAnchors)
  /\ lfn \in {"utils", "ContentExtractor"}
  /\ lpc = "start"
  /\ extracted = <<>>
  /\ OthersIdle

LinkNext == UtilsExtractLinks \/ ContentExtractorExtractLinks

LinkSpec == LinkInit /\ [][LinkNext]_vars

\* the href of the n-th of the pages that a long page links to
PagePath(n) == "/p" \o ToString(n)

\* the anchors of a long page: anchor n links to page n of the same site, and
\* its text is one character or longer
LongPages ==
  UNION {{[n \in 1..k |-> [href |-> <<PagePath(n)>>, text |-> t[n]]]
            : t \in [1..k -> {"x", "Text"}]}
         : k \in 0..ManyAnchors}

\* a page with many anchors that link to pages of its site
LinkCapInit ==
  /\ TraversalIdle
  /\ browserInstance = NoBrowser
  /\ ManagerAbsent
  /\ mgr = "none" /\ BrowsersIdle
  /\ HandlerIdle
  /\ anchors \in LongPages
  /\ lfn \in {"utils", "ContentExtractor"}
  /\ lpc = "start"
  /\ extracted = <<>>
  /\ OthersIdle

LinkCapSpec == LinkCapInit /\ [][LinkNext]_vars

----------------------------------------------------------------------------
(* extractMainContent of utils/content-extractor and of ContentExtractor
   (SelectSpec). A document is given by what the two functions read of it:
   the elements each content selector matches, in document order, with the
   length of their text (texts have no surrounding whitespace), and the
   paragraph elements with the container each one is in. *)

Selectors == 1..NumSelectors

\* textContent lengths around the threshold
TextLengths == {0, MinTextLength, MinTextLength + 1}

\* the containers of the document: body > section > div
Containers == {"body", "section", "div"}

Element(tag, n) == [tag |-> tag, n |-> n]

\* parentElement, repeated up to document.body (body itself is left out)
AncestorsOf(container) ==
  CASE container = "div" -> <<Element("div", 0), Element("section", 0)>>
    [] container = "section" -> <<Element("section", 0)>>
    [] OTHER -> <<>>

Documents ==
  [matches : [Selectors -> SeqsUpTo(TextLengths, MaxMatches)],
   paragraphs : SeqsUpTo(Containers, MaxParagraphs)]

BySelector(s, i) == [by |-> "selector", selector |-> s, element |-> i]

\* utils extractMainContent: the loop over contentSelectors from selector s
\* on (lines 41-47); querySelector gives the first match
RECURSIVE UtilsSelect(_, _)
UtilsSelect(d, s) ==
  IF s > NumSelectors
  THEN [by |-> "body", selector |-> 0, element |-> 0]
  ELSE IF d.matches[s] # <<>> /\ d.matches[s][1] > MinTextLength
       THEN BySelector(s, 1)
       ELSE UtilsSelect(d, s + 1)

\* ContentExtractor: the largest of several matches (lines 112-122): the
\* first element whose length is above every length before it, 0 when every
\* text is empty
RECURSIVE MaxElement(_, _)
MaxElement(lengths, n) ==
  IF n = 0 THEN 0
  ELSE LET before == MaxElement(lengths, n - 1)
           maxLength == IF before = 0 THEN 0 ELSE lengths[before]
       IN  IF lengths[n] > maxLength THEN n ELSE before

\* the elements the density analysis walks through, in the order it meets
\* them: each of the first n paragraphs, then its ancestors below body
\* (lines 141-147)
RECURSIVE Walked(_, _)
Walked(paragraphs, n) ==
  IF n = 0 THEN <<>>
  ELSE Walked(paragraphs, n - 1) \o <<Element("p", n)>> \o AncestorsOf(paragraphs[n])

\* ancestors.get(element): the times the walk met the element
CountOf(walk, e) == Cardinality({i \in 1..Len(walk) : walk[i] = e})

\* ancestors.forEach with count > maxCount (lines 150-158): the first element,
\* in the order of insertion, that has the highest count
BestAncestor(walk) ==
  LET maxCount == Max({CountOf(walk, walk[i]) : i \in 1..Len(walk)})
      first == CHOOSE i \in 1..Len(walk) :
                 /\ CountOf(walk, walk[i]) = maxCount
                 /\ \A j \in 1..(i - 1) : CountOf(walk, walk[j]) < maxCount
  IN  walk[first]

\* ContentExtractor: density analysis, then the body (lines 133-169)
Fallback(d) ==
  IF d.paragraphs # <<>>
  THEN [by |-> "density", selector |-> 0,
        element |-> BestAncestor(Walked(d.paragraphs, Len(d.paragraphs)))]
  ELSE [by |-> "body", selector |-> 0, element |-> 0]

\* ContentExtractor.extractMainContent: the loop over contentSelectors from
\* selector s on (lines 107-131)
RECURSIVE ExtractorSelect(_, _)
ExtractorSelect(d, s) ==
  IF s > NumSelectors THEN Fallback(d)
  ELSE IF Len(d.matches[s]) = 1 THEN BySelector(s, 1)
  ELSE IF Len(d.matches[s]) > 1 /\ MaxElement(d.matches[s], Len(d.matches[s])) # 0
       THEN BySelector(s, MaxElement(d.matches[s], Len(d.matches[s])))
  ELSE ExtractorSelect(d, s + 1)

\* utils/content-extractor extractMainContent(page)
UtilsExtractMainContent ==
  /\ sfn = "utils" /\ spc = "start"
  /\ selected' = UtilsSelect(dom, 1)
  /\ spc' = "done"
  /\ UNCHANGED <<dom, sfn, cvars, pvars, dvars>>
  /\ UNCHANGED <<tvars, fvars, browserInstance, bvars, calls, disc, xvars>>

\* ContentExtractor.extractMainContent(page)
ContentExtractorExtractMainContent ==
  /\ sfn = "ContentExtractor" /\ spc = "start"
  /\ selected' = ExtractorSelect(dom, 1)
  /\ spc' = "done"
  /\ UNCHANGED <<dom, sfn, cvars, pvars, dvars>>
  /\ UNCHANGED <<tvars, fvars, browserInstance, bvars, calls, disc, xvars>>

\* a document, and the function applied to it
SelectInit ==
  /\ TraversalIdle
  /\ browserInstance = NoBrowser
  /\ ManagerAbsent
  /\ mgr = "none" /\ BrowsersIdle
  /\ HandlerIdle
  /\ LinksIdle
  /\ ClosersIdle
  /\ InvocationsIdle
  /\ ServiceIdle
  /\ dom \in Documents
  /\ sfn \in {"utils", "ContentExtractor"}
  /\ spc = "start"
  /\ selected = NoSelection

SelectNext == UtilsExtractMainContent \/ ContentExtractorExtractMainContent

SelectSpec == SelectInit /\ [][SelectNext]_vars

----------------------------------------------------------------------------
(* Two invocations of performDeepSearch over the same pages (PairSpec,
   ConcurrentSpec). Each invocation has the locals that performDeepSearch
   declares; a step of an invocation is what the event loop runs of it
   between two awaits.
   Fetching a URL gives the same outcome to every fetch of that URL. *)

\* the URLs met so far: the seeds and the links of the pages fetched
Met ==
  UNION {Range(invocations[i].initialUrls) : i \in Invocations}
    \cup UNION {Range(web[u].links) : u \in DOMAIN web}

\* what a fetch of u can give: what an earlier fetch of u gave, or else a
\* failure or a page with links
FetchOutcomes(u) ==
  IF web[u].known
  THEN {web[u]}
  ELSE {[known |-> TRUE, threw |-> TRUE, links |-> <<>>]}
         \cup {[known |-> TRUE, threw |-> FALSE, links |-> l] :
                 l \in {m \in SeqsUpTo(DOMAIN web, PairLinks) :
                          InOrderOfDiscovery(Max({0} \cup Met), m)}}

\* the queue with those of the items added whose URL is neither visited nor
\* in the queue
RECURSIVE PushNew(_, _, _)
PushNew(q, v, items) ==
  IF items = <<>>
  THEN q
  ELSE IF IsVisited(v, Head(items).url) \/ \E k \in 1..Len(q) : q[k].url = Head(items).url
       THEN PushNew(q, v, Tail(items))
       ELSE PushNew(Append(q, Head(items)), v, Tail(items))

\* the queue an invocation starts with
FirstQueue(dedup, seeds) ==
  IF dedup THEN PushNew(<<>>, {}, SeedQueue(seeds)) ELSE SeedQueue(seeds)

\* the test made on a dequeued entry (line 82), seen the visited URLs the
\* invocation reads: the traversal that deduplicates when it enqueues tests
\* the budget only
SkipEntry(inv, seen) ==
  \/ ~inv.dedup /\ IsVisited(seen, Head(inv.queue).url)
  \/ BudgetMet(inv.results, inv.maxPages)

\* an invocation reads the visited URLs of every invocation
VisitedByAny(invs, i) == UNION {invs[j].visitedUrls : j \in Invocations}

\* the visited URLs an invocation reads: those of its own visitedUrls
VisitedBy(invs, i) == invs[i].visitedUrls

\* the queue after the links of a fetched page were enqueued (lines 94-103)
Expanded(inv, seen, links) ==
  IF ShouldExpand(inv.cur.currentDepth, inv.depth)
  THEN IF inv.dedup
       THEN PushNew(inv.queue, seen,
                    [k \in 1..Len(links) |->
                       [url |-> links[k], currentDepth |-> inv.cur.currentDepth + 1]])
       ELSE Push(inv.queue, LinkedPages(links, seen, inv.cur.currentDepth))
  ELSE inv.queue

\* invocation i runs its loop up to its next await: entries are dequeued and
\* skipped until the loop ends (lines 78, 111) or an entry is marked visited
\* and its fetch starts (lines 79-90)
RECURSIVE Resume(_, _)
Resume(invs, i) ==
  LET inv == invs[i]
  IN  IF ~LoopCondition(inv.queue, inv.results, inv.maxPages)
      THEN [invs EXCEPT ![i].pc = "done"]
      ELSE IF SkipEntry(inv, VisitedBy(invs, i))
           THEN Resume([invs EXCEPT ![i].queue = Shift(@), ![i].skipped = @ + 1], i)
           ELSE [invs EXCEPT
                   ![i].cur = Head(inv.queue),
                   ![i].queue = Shift(@),
                   ![i].visitedUrls = AddVisited(@, Head(inv.queue).url),
                   ![i].overlapped = @ \/ \E j \in Invocations \ {i} : invs[j].pc = "fetch",
                   ![i].pc = "fetch"]

\* performDeepSearch is called: it runs up to its first await (lines 63-90)
InvocationCall(i) ==
  /\ invocations[i].pc = "called"
  /\ invocations' = Resume([invocations EXCEPT ![i].pc = "loop"], i)
  /\ UNCHANGED web

\* the fetch of invocation i returns: the page is pushed, its links are
\* enqueued and the loop goes on (lines 91-104)
InvocationCollect(i) ==
  /\ invocations[i].pc = "fetch"
  /\ \E o \in FetchOutcomes(invocations[i].cur.url) :
       /\ ~o.threw
       /\ web' = [web EXCEPT ![invocations[i].cur.url] = o]
       /\ invocations' =
            Resume([invocations EXCEPT
                      ![i].results = Append(@, Stored(PageContent(invocations[i].cur.url,
                                                                  o.links))),
                      ![i].queue = Expanded(invocations[i], VisitedBy(invocations, i),
                                            o.links),
                      ![i].cur = NoEntry,
                      ![i].pc = "loop"], i)

\* the fetch of invocation i throws: the error is logged and the loop goes on
\* (lines 105-108)
InvocationCatch(i) ==
  /\ invocations[i].pc = "fetch"
  /\ \E o \in FetchOutcomes(invocations[i].cur.url) :
       /\ o.threw
       /\ web' = [web EXCEPT ![invocations[i].cur.url] = o]
       /\ invocations' = Resume([invocations EXCEPT ![i].cur = NoEntry,
                                                    ![i].pc = "loop"], i)

Invocation(i) ==
  /\ \/ InvocationCall(i)
     \/ InvocationCollect(i)
     \/ InvocationCatch(i)
  /\ UNCHANGED <<tvars, fvars, browserInstance, bvars, calls, disc, xvars, svars, cvars, dvars>>

\* performDeepSearch(seeds, {depth: d, maxPages: m}) is called
Invoked(dedup, seeds, d, m) ==
  [dedup |-> dedup, initialUrls |-> seeds,
   depth |-> OrDefault(d, DefaultDepth), maxPages |-> OrDefault(m, DefaultMaxPages),
   visitedUrls |-> {}, results |-> <<>>, queue |-> FirstQueue(dedup, seeds),
   pc |-> "called", cur |-> NoEntry, skipped |-> 0, overlapped |-> FALSE]

\* nothing but the invocations runs
InvocationsOnly ==
  /\ TraversalIdle
  /\ browserInstance = NoBrowser
  /\ ManagerAbsent
  /\ mgr = "none" /\ BrowsersIdle
  /\ HandlerIdle
  /\ LinksIdle
  /\ SelectIdle
  /\ ClosersIdle
  /\ ServiceIdle

\* performDeepSearch and the traversal that deduplicates when it enqueues,
\* called with the same arguments
PairInit ==
  /\ InvocationsOnly
  /\ \E seeds \in SeqsUpTo(1..PairUrls, MaxSeeds), d \in 0..MaxDepthOpt,
        m \in 0..MaxPagesOpt :
       /\ InOrderOfDiscovery(0, seeds)
       /\ invocations = [i \in Invocations |-> Invoked(i = 2, seeds, d, m)]
  /\ web = [u \in 1..PairUrls |-> NotFetched]

\* the second traversal runs on the pages as the first one found them
PairNext ==
  \/ Invocation(1)
  \/ invocations[1].pc = "done" /\ Invocation(2)

PairSpec == PairInit /\ [][PairNext]_vars

\* two concurrent calls of performDeepSearch
ConcurrentInit ==
  /\ InvocationsOnly
  /\ \E s1, s2 \in SeqsUpTo(1..PairUrls, ConcurrentSeeds), d1, d2 \in 0..MaxDepthOpt,
        m1, m2 \in 0..MaxPagesOpt :
       /\ InOrderOfDiscovery(0, s1 \o s2)
       /\ invocations = [i \in Invocations |->
                           IF i = 1 THEN Invoked(FALSE, s1, d1, m1)
                                    ELSE Invoked(FALSE, s2, d2, m2)]
  /\ web = [u \in 1..PairUrls |-> NotFetched]

ConcurrentNext == \E i \in Invocations : Invocation(i)

ConcurrentSpec == ConcurrentInit /\ [][ConcurrentNext]_vars

\* performDeepSearch running alone on pages whose fetch outcomes are given:
\* the results it returns (a fetch whose outcome is not given ends the run
\* with a record of no page)
RECURSIVE Alone(_, _, _, _, _, _)
Alone(q, v, r, d, mp, pages) ==
  IF ~LoopCondition(q, r, mp)
  THEN r
  ELSE IF IsVisited(v, Head(q).url) \/ BudgetMet(r, mp)
       THEN Alone(Shift(q), v, r, d, mp, pages)
       ELSE LET u == Head(q).url
                o == pages[u]
                v2 == AddVisited(v, u)
            IN  IF ~o.known
                THEN Append(r, Stored(NoRecord))
                ELSE IF o.threw
                     THEN Alone(Shift(q), v2, r, d, mp, pages)
                     ELSE Alone(IF ShouldExpand(Head(q).currentDepth, d)
                                THEN Push(Shift(q),
                                          LinkedPages(o.links, v2, Head(q).currentDepth))
                                ELSE Shift(q),
                                v2, Append(r, Stored(PageContent(u, o.links))),
                                d, mp, pages)

----------------------------------------------------------------------------
(* DeepSearchService.deepSearch (ServiceSpec). The service compares no URLs,
   so a page is named by the way it was reached: <<r>> is the page of search
   result r, <<r, k>> the page of its k-th link, <<r, k, 1>> the page of the
   first link of that one. A step is what runs between two awaits. *)

\* what ContentExtractor.extractContent(url) gives: it throws, or it returns
\* the content with the links of the page
PageOutcomes(url) ==
  {[threw |-> TRUE, links |-> <<>>]}
    \cup {[threw |-> FALSE, links |-> [k \in 1..n |-> Append(url, k)]] :
            n \in 0..ServiceLinks}

\* Math.min(depth, 2) with depth = 0 when absent (lines 54, 58)
ActualDepth(arg) == Min2(Destructured(arg, DefaultServiceDepth), ServiceDepthCap)

\* every link is processed
PagesToProcessAll(list) == list

\* links.slice(0, 3) (line 141)
PagesToProcess(list) == SubSeq(list, 1, Min2(Len(list), RelatedCap))

Fetched(url, o) == [page |-> url, threw |-> o.threw]

ServiceOnly ==
  UNCHANGED <<tvars, fvars, browserInstance, bvars, calls, disc, xvars, svars,
              cvars, pvars>>

\* deepSearch(params) up to the search request (lines 53-66)
DeepSearch ==
  /\ dpc = "start"
  /\ actualDepth' = ActualDepth(request.depth)
  /\ dpc' = "webSearch"
  /\ UNCHANGED <<request, searchResults, resultAt, enrichedResults, contentLinks,
                 pagesToProcess, linkAt, relatedPages, crawl>>
  /\ ServiceOnly

\* the search throws: deepSearch logs and rethrows (lines 80-83)
WebSearchRejects ==
  /\ dpc = "webSearch"
  /\ dpc' = "threw"
  /\ UNCHANGED <<request, actualDepth, searchResults, resultAt, enrichedResults,
                 contentLinks, pagesToProcess, linkAt, relatedPages, crawl>>
  /\ ServiceOnly

\* the search returns and processSearchResults starts on the first result;
\* with no result deepSearch returns (lines 63-78, 96-99, 127)
WebSearchResolves ==
  /\ dpc = "webSearch"
  /\ \E n \in 0..ServiceResults :
       /\ searchResults' = [r \in 1..n |-> <<r>>]
       /\ resultAt' = IF n = 0 THEN 0 ELSE 1
       /\ dpc' = IF n = 0 THEN "returned" ELSE "result"
  /\ UNCHANGED <<request, actualDepth, enrichedResults, contentLinks,
                 pagesToProcess, linkAt, relatedPages, crawl>>
  /\ ServiceOnly

\* enrichedResults.push and the next turn of the loop over searchResults;
\* after the last one deepSearch returns (lines 99, 119-127, 72-78)
Pushed(e) ==
  /\ enrichedResults' = Append(enrichedResults, e)
  /\ IF resultAt < Len(searchResults)
     THEN resultAt' = resultAt + 1 /\ dpc' = "result"
     ELSE resultAt' = 0 /\ dpc' = "returned"

\* the next turn of the loop over pagesToProcess; after the last one
\* processRelatedPages returns and the result is pushed (lines 145, 168,
\* 113-119)
NextLink(rel) ==
  /\ relatedPages' = rel
  /\ IF linkAt < Len(pagesToProcess)
     THEN /\ linkAt' = linkAt + 1
          /\ dpc' = "related"
          /\ UNCHANGED <<resultAt, enrichedResults>>
     ELSE /\ linkAt' = 0
          /\ Pushed([url |-> searchResults[resultAt], extracted |-> TRUE,
                     relatedPages |-> rel])

\* the page of a search result is extracted (lines 99-123): a failure is
\* caught and the bare result is pushed
ProcessSearchResult ==
  /\ dpc = "result"
  /\ LET url == searchResults[resultAt]
     IN  \E o \in PageOutcomes(url) :
           /\ crawl' = <<Fetched(url, o)>>
           /\ relatedPages' = <<>>
           /\ IF ~o.threw /\ actualDepth > 0 /\ Len(o.links) > 0
              THEN /\ contentLinks' = o.links
                   /\ pagesToProcess' = PagesToProcess(o.links)
                   /\ linkAt' = 1
                   /\ dpc' = "related"
                   /\ UNCHANGED <<resultAt, enrichedResults>>
              ELSE /\ contentLinks' = <<>> /\ pagesToProcess' = <<>> /\ linkAt' = 0
                   /\ Pushed([url |-> url, extracted |-> ~o.threw,
                              relatedPages |-> <<>>])
  /\ UNCHANGED <<request, actualDepth, searchResults>>
  /\ ServiceOnly

\* a related page is extracted (lines 145-166): a failure is caught and the
\* loop goes on with the next link
ProcessRelatedPage ==
  /\ dpc = "related"
  /\ LET url == pagesToProcess[linkAt]
     IN  \E o \in PageOutcomes(url) :
           /\ crawl' = Append(crawl, Fetched(url, o))
           /\ IF o.threw
              THEN NextLink(relatedPages)
              ELSE IF actualDepth > 1 /\ Len(o.links) > 0
                   THEN /\ relatedPages' = Append(relatedPages, url)
                        /\ dpc' = "nested"
                        /\ UNCHANGED <<resultAt, enrichedResults, linkAt>>
                   ELSE NextLink(Append(relatedPages, url))
  /\ UNCHANGED <<request, actualDepth, searchResults, contentLinks, pagesToProcess>>
  /\ ServiceOnly

\* the first link of the related page is extracted (lines 154-161); a failure
\* is caught by the same handler
ProcessNestedPage ==
  /\ dpc = "nested"
  /\ LET nextLevelLink == Append(pagesToProcess[linkAt], 1)
     IN  \E o \in PageOutcomes(nextLevelLink) :
           /\ crawl' = Append(crawl, Fetched(nextLevelLink, o))
           /\ IF o.threw
              THEN NextLink(relatedPages)
              ELSE NextLink(Append(relatedPages, nextLevelLink))
  /\ UNCHANGED <<request, actualDepth, searchResults, contentLinks, pagesToProcess>>
  /\ ServiceOnly

\* a call of deepSearch with a depth argument
ServiceInit ==
  /\ TraversalIdle
  /\ browserInstance = NoBrowser
  /\ ManagerAbsent
  /\ mgr = "none" /\ BrowsersIdle
  /\ HandlerIdle
  /\ LinksIdle
  /\ SelectIdle
  /\ ClosersIdle
  /\ InvocationsIdle
  /\ request \in [depth : Args(-1, ServiceDepthOpt)]
  /\ dpc = "start"
  /\ actualDepth = 0
  /\ searchResults = <<>> /\ resultAt = 0 /\ enrichedResults = <<>>
  /\ contentLinks = <<>> /\ pagesToProcess = <<>> /\ linkAt = 0
  /\ relatedPages = <<>>
  /\ crawl = <<>>

ServiceNext ==
  \/ DeepSearch
  \/ WebSearchRejects
  \/ WebSearchResolves
  \/ ProcessSearchResult
  \/ ProcessRelatedPage
  \/ ProcessNestedPage

ServiceSpec == ServiceInit /\ [][ServiceNext]_vars

----------------------------------------------------------------------------
(* Properties of performDeepSearch (Spec, LiveSpec) *)

ResultUrls == [i \in 1..Len(results) |-> results[i].url]

Entries(h) == [i \in 1..Len(h) |-> [url |-> h[i].url, currentDepth |-> h[i].currentDepth]]

Failed == {i \in 1..Len(fetchLog) : fetchLog[i].status = "failed"}

NotFailed == {i \in 1..Len(fetchLog) : fetchLog[i].status # "failed"}

IsOk(f) == f.status = "ok"

\* a URL came off the queue more than once
DequeuedTwice ==
  \E i, j \in 1..Len(dequeued) : i < j /\ dequeued[i].url = dequeued[j].url

\* C1: the result list never holds more than maxPages pages, at any point of
\* the traversal and when it returns.
ResultsWithinBudget == Len(results) <= maxPages

\* the budget is met while the frontier still holds entries
BudgetMetWithFrontierLeft ==
  pc = "done" /\ Len(results) = maxPages /\ queue # <<>>

\* C2: a URL is in the visited set from the moment it is dequeued for a fetch,
\* before the fetch starts, and no URL is fetched more than once in a
\* traversal.
FetchedAtMostOnce ==
  /\ pc = "fetch" => cur.url \in visitedUrls /\ furl = cur.url
  /\ visitedUrls = {fetchLog[i].url : i \in 1..Len(fetchLog)}
  /\ \A i, j \in 1..Len(fetchLog) : fetchLog[i].url = fetchLog[j].url => i = j

\* a URL that links to itself, or is linked from two pages or listed twice, was
\* dequeued again and skipped
RepeatedUrlSkipped ==
  pc = "done" /\ DequeuedTwice /\ Len(fetchLog) >= 2

\* C3: the result list never contains two pages with the same URL.
NoDuplicateResults ==
  \A i, j \in 1..Len(results) : results[i].url = results[j].url => i = j

\* two pages were collected although a URL came off the queue twice
TwoResultsDespiteRepeat ==
  pc = "done" /\ Len(results) >= 2 /\ DequeuedTwice

\* C4: pages appear in the result in the order their URLs were dequeued, which
\* is breadth-first: depths never decrease along the fetches, a URL is fetched
\* only when no shallower entry is left in the queue, the queue hands entries
\* out in the order they were enqueued, and seeds [A, B] that link to one new
\* page each give [A, B, A's link, B's link] with depth 2 and budget 4.
BreadthFirstOrder ==
  /\ ResultUrls = [i \in 1..Len(SelectSeq(fetchLog, IsOk)) |->
                     SelectSeq(fetchLog, IsOk)[i].url]
  /\ \A i, j \in 1..Len(fetchLog) :
       i < j => fetchLog[i].currentDepth <= fetchLog[j].currentDepth
  /\ pc = "fetch" =>
       \A i \in 1..Len(queue) : queue[i].currentDepth >= cur.currentDepth
  /\ Entries(enqueued) = dequeued \o queue
  /\ ( /\ pc = "done" /\ initialUrls = <<1, 2>> /\ depth = 2 /\ maxPages = 4
       /\ Failed = {}
       /\ Entries(enqueued) = << [url |-> 1, currentDepth |-> 1],
                                 [url |-> 2, currentDepth |-> 1],
                                 [url |-> 3, currentDepth |-> 2],
                                 [url |-> 4, currentDepth |-> 2] >> )
     => ResultUrls = <<1, 2, 3, 4>>

\* the traversal of seeds [1, 2], page 1 linking to 3 and page 2 to 4
TwoSeedsTwoLinks ==
  /\ pc = "done" /\ initialUrls = <<1, 2>> /\ depth = 2 /\ maxPages = 4
  /\ Failed = {}
  /\ \E i, j \in 1..Len(enqueued) :
       /\ enqueued[i].url = 3 /\ enqueued[i].from = 1
       /\ enqueued[j].url = 4 /\ enqueued[j].from = 2
  /\ ResultUrls = <<1, 2, 3, 4>>

\* C5: with depth limit 1 no link of a fetched page is enqueued, and no URL
\* outside the seed list is fetched.
DepthOneFetchesSeedsOnly ==
  depth = 1 =>
    /\ Entries(enqueued) = SeedQueue(initialUrls)
    /\ \A i \in 1..Len(fetchLog) : fetchLog[i].url \in Range(initialUrls)

\* at depth limit 1 a page that links to a URL outside the seeds was collected
DepthOnePageWithNewLink ==
  pc = "done" /\ depth = 1 /\ Len(results) >= 1 /\ disc > Max({0} \cup Range(initialUrls))

\* C6: every traversal terminates, and it ends with the page budget met or the
\* frontier empty.
Terminates ==
  /\ <>(pc = "done")
  /\ [](pc = "done" => (queue = <<>> \/ Len(results) >= maxPages))

\* a traversal over a link cycle with a failed fetch has ended
EndedAfterCycleAndFailure ==
  /\ pc = "done" /\ Failed # {}
  /\ \E i \in 1..Len(enqueued) :
       enqueued[i].from # 0 /\ enqueued[i].url \in Range(initialUrls)

----------------------------------------------------------------------------
(* Properties of the page fetchers (FetchSpec) *)

Ended == fpc \in {"returned", "threw"}

PagesClosedOnExit == Ended => opened \cap openPages = {}

----------------------------------------------------------------------------
(* Properties of the browser managers (BrowserSpec, ShutdownSpec) *)

\* C11: utils/browser has at most one launch in flight: callers that ask while
\* no instance is cached or while a launch is in progress share one launch
OneLaunchInFlight == mgr = "utils" => Cardinality(InFlight) <= 1

\* the reference a manager caches
Cached == IF mgr = "utils" THEN browserInstance ELSE browser

\* C12: a browser that reported its disconnection is not cached and is never
\* returned by getBrowser, and a call that finds a cached browser returns
\* that browser without launching
DisconnectedNeverReturned ==
  /\ Cached # NoBrowser => chromium[Cached] = "connected"
  /\ \A c \in Callers :
       gpc[c] = "returned" =>
         /\ got[c].connected
         /\ got[c].found # NoBrowser =>
              got[c].instance = got[c].found /\ ~got[c].launched
         /\ got[c].found = NoBrowser => chromium[got[c].instance] # "none"

\* after browser 1 disconnected, one caller was given a newly launched browser
\* and another caller was given that cached browser
RelaunchedAfterDisconnect ==
  /\ chromium[1] = "disconnected"
  /\ \E c, d \in Callers :
       /\ gpc[c] = "returned" /\ got[c].launched /\ got[c].instance = 2
       /\ gpc[d] = "returned" /\ got[d].found = 2 /\ got[d].instance = 2
       /\ chromium[2] = "connected"

\* C13: when process.exit is called after SIGINT / SIGTERM, no browser that
\* getBrowser launched is connected or being launched
NoBrowserLeftAtExit == exited => Live = {} /\ InFlight = {}

\* the callers inside a BrowserManager.getBrowser call that awaits a launch
Acquiring == {c \in Callers : gpc[c] \in {"launching", "waiting"}}

\* C27: BrowserManager.getBrowser has at most one launch in flight, no call
\* that arrives during a launch starts another one, and every call that
\* awaits a launch settles with the outcome of that launch: the instance it
\* created, or its failure
SharedLaunch ==
  [][mgr = "manager" =>
       /\ Cardinality(InFlight) <= 1 /\ Cardinality(InFlight') <= 1
       /\ isInitializing => InFlight' \subseteq InFlight
       /\ \A c \in Acquiring :
            /\ held[c] \in InFlight
            /\ chromium'[held[c]] = "connected" =>
                 /\ gpc'[c] = "returned"
                 /\ got'[c].instance = held[c]
                 /\ browser' = held[c]
            /\ chromium'[held[c]] = "failed" => gpc'[c] = "threw"]_vars

\* two calls returned the instance of one launch: the call that started the
\* launch and a call that arrived while it was in progress
WaiterSharesLaunch ==
  /\ mgr = "manager"
  /\ \E c, d \in Callers :
       /\ gpc[c] = "returned" /\ gpc[d] = "returned"
       /\ got[c].launched /\ ~got[d].launched /\ got[d].found = NoBrowser
       /\ got[c].instance = got[d].instance
       /\ Cardinality(Started) = 1

\* C28: after a failed launch the manager is absent: nothing is cached, no
\* flag and no promise is left, the calls that awaited the launch throw, and
\* no launch is started by the failure
AbsentAfterFailedLaunch ==
  [][\A b \in Launches :
       chromium[b] = "launching" /\ chromium'[b] = "failed" =>
         /\ Cached' = NoBrowser
         /\ mgr = "manager" => ~isInitializing' /\ initPromise' = "none"
         /\ \A c \in Callers :
              held[c] = b /\ gpc[c] \in {"launching", "waiting"} => gpc'[c] = "threw"
         /\ Started' = Started]_vars

\* C29: closeBrowser called with a cached browser ends with that browser
\* closed and with no cached reference, and closeBrowser called with no
\* cached browser changes nothing
CloseBrowserClears ==
  \A c \in Callers :
    closed[c].ended =>
      /\ closed[c].reference = NoBrowser
      /\ closed[c].target # NoBrowser => closed[c].state = "disconnected"

\* C30: the cached reference is cleared only for the instance that
\* disconnected: no step clears the reference to a connected browser
ClearedOnlyWhenGone ==
  [][Cached # NoBrowser /\ Cached' = NoBrowser =>
       chromium'[Cached] = "disconnected"]_vars

----------------------------------------------------------------------------
(* Properties of deepSearchTool.handler (HandlerSpec, ClampSpec) *)

Succeeded == {i \in 1..Len(fetchLog) : fetchLog[i].status = "ok"}

\* the URLs of the fetches that succeeded, in the order of the fetches
RECURSIVE SucceededUrls(_)
SucceededUrls(log) ==
  IF log = <<>> THEN <<>>
  ELSE IF log[Len(log)].status = "ok"
       THEN Append(SucceededUrls(SubSeq(log, 1, Len(log) - 1)), log[Len(log)].url)
       ELSE SucceededUrls(SubSeq(log, 1, Len(log) - 1))

\* C14: when the upstream search fails the handler returns an error-flagged
\* response that carries the failure message, and the traversal never
\* starts: no browser is acquired and no page is fetched
SearchFailureIsError ==
  searched = "failed" =>
    /\ hpc = "returned"
    /\ response.isError /\ response.kind = "error" /\ ~response.threw
    /\ response.message = "Brave Search API error"
    /\ pc = "none" /\ fetchLog = <<>> /\ enqueued = <<>>
    /\ fn = "none" /\ fpc = "idle"
    /\ browserInstance = NoBrowser
    /\ openPages = {} /\ opened = {}

\* the search of a call with arguments failed
SearchFailedWithArguments ==
  /\ searched = "failed" /\ hpc = "returned"
  /\ params.results.given /\ params.depth.given
  /\ response.isError

\* C15: when the browser cannot be launched during an invocation, the tool
\* response is error-flagged, not a successful report
LaunchFailureIsError ==
  (hpc = "returned" /\ fetchLog # <<>> /\ browserInstance = NoBrowser) =>
    response.isError

\* C16: every invocation ends by returning a response and never by throwing:
\* one text block (the report, or the notice that nothing was found) or an
\* error-flagged response, whatever the search, the launch of the browser
\* and each page fetch do; until then the invocation has a step to take
HandlerAlwaysReturns ==
  /\ hpc = "returned" =>
       /\ ~response.threw
       /\ \/ response.isError /\ response.kind = "error" /\ searched = "failed"
          \/ ~response.isError /\ response.kind = "notice" /\ searched = "empty"
          \/ ~response.isError /\ response.kind = "report" /\ searched = "ok"
  /\ hpc # "returned" => response = NoResponse /\ ENABLED HandlerNext

\* every fetch of an invocation failed, the first one at the launch of the
\* browser and a later one after the launch, and a report was returned
ReportAfterEveryFetchFailed ==
  /\ hpc = "returned" /\ response.kind = "report"
  /\ Len(fetchLog) >= 2 /\ Succeeded = {}
  /\ browserInstance # NoBrowser

\* C17: when some fetches fail and others succeed, the handler returns a
\* report that is not error-flagged and contains every page whose fetch
\* succeeded; a failed fetch neither ends the traversal nor discards pages
PartialFailureReported ==
  /\ (hpc = "returned" /\ Failed # {} /\ Succeeded # {}) =>
       /\ ~response.isError /\ response.kind = "report"
       /\ response.pages = SucceededUrls(fetchLog)
  /\ (pc = "done" /\ Failed # {}) => ~LoopCondition(queue, results, maxPages)

\* a report with a page fetched before a failed fetch and one fetched after it
ReportAroundFailedFetch ==
  /\ hpc = "returned" /\ response.kind = "report"
  /\ \E i, j, k \in 1..Len(fetchLog) :
       /\ i < j /\ j < k
       /\ fetchLog[i].status = "ok"
       /\ fetchLog[j].status = "failed"
       /\ fetchLog[k].status = "ok"
  /\ Len(response.pages) = 2

\* min(max(v, lo), hi)
Clamp(v, lo, hi) == IF v < lo THEN lo ELSE IF v > hi THEN hi ELSE v

\* C18: the effective result count is min(max(r, 1), 10) for every integer r
\* given as results, and 3 when results is absent
ResultsClamped ==
  hpc # "start" =>
    maxResults = IF params.results.given THEN Clamp(params.results.value, 1, 10) ELSE 3

\* C19: the effective depth is min(max(d, 1), 3) for every integer d given as
\* depth, and 1 when depth is absent
DepthClamped ==
  hpc # "start" =>
    maxDepth = IF params.depth.given THEN Clamp(params.depth.value, 1, 3) ELSE 1

\* depth 0, which is falsy, was validated to 1
DepthZeroClampedToOne ==
  /\ hpc = "search"
  /\ params.depth = Arg(0) /\ maxDepth = 1

\* C32: the handler runs the traversal with the page budget (effective result
\* count times effective depth); a report never has more pages than that,
\* which is at most 30, and with effective depth 1 every page of it is one
\* whose URL the search returned
ReportWithinResultsTimesDepth ==
  /\ hpc = "performDeepSearch" =>
       /\ maxPages = maxResults * maxDepth
       /\ depth = maxDepth
       /\ Len(results) <= maxResults * maxDepth
  /\ (hpc = "returned" /\ response.kind = "report") =>
       /\ Len(response.pages) <= maxResults * maxDepth
       /\ maxResults * maxDepth <= 30
       /\ maxDepth = 1 =>
            \A i \in 1..Len(response.pages) : response.pages[i] \in Range(initialUrls)

\* a report at depth 1 that the budget cut short: the search returned more
\* URLs than the budget has pages, and a page of the report links to a URL
\* the search did not return
BudgetCutReportAtDepthOne ==
  /\ hpc = "returned" /\ response.kind = "report"
  /\ maxDepth = 1
  /\ Len(response.pages) = maxResults * maxDepth
  /\ Cardinality(Range(initialUrls)) > Len(response.pages)
  /\ disc > Max({0} \cup Range(initialUrls))

----------------------------------------------------------------------------
(* Properties of extractLinks (LinkSpec) *)

\* an href with a scheme other than http(s), or a pure in-page anchor
NotFollowable(href) ==
  LET h == Stripped(href)
  IN  /\ h # <<>>
      /\ \/ SchemeOf(Head(h)) \notin {"", "http", "https"}
         \/ Head(h) = "#"

\* C20: neither extractLinks returns a link whose href has a scheme other
\* than http(s) (javascript:, mailto:, tel:) or is a pure in-page anchor
\* (#fragment)
OnlyFollowableLinks ==
  lpc = "done" => \A i \in 1..Len(extracted) : ~NotFollowable(extracted[i].href)

\* C21: the link list of one page is capped: however many anchors the page
\* has, each extractLinks returns at most 10 links
LinksCapped == lpc = "done" => Len(extracted) <= LinkCap

----------------------------------------------------------------------------
(* More properties of performDeepSearch (Spec) *)

\* C24: every frontier entry has a depth between 1 and the depth limit: a
\* seed has depth 1, a link has the depth of the page it was found on plus 1
\* and that page is below the limit, so no URL is fetched above the limit
DepthsWithinLimit ==
  /\ \A i \in 1..Len(enqueued) :
       LET e == enqueued[i]
       IN  /\ e.currentDepth >= 1 /\ e.currentDepth <= depth
           /\ e.from = 0 => e.currentDepth = 1
           /\ e.from # 0 =>
                \E j \in 1..Len(fetchLog) :
                  /\ fetchLog[j].url = e.from
                  /\ fetchLog[j].status = "ok"
                  /\ fetchLog[j].currentDepth + 1 = e.currentDepth
                  /\ fetchLog[j].currentDepth < depth
  /\ \A i \in 1..Len(queue) : queue[i].currentDepth \in 1..depth
  /\ \A j \in 1..Len(fetchLog) : fetchLog[j].currentDepth \in 1..depth

\* a page at the depth limit 2 was fetched and carried a link that is new
PageAtLimitNotExpanded ==
  /\ depth = 2 /\ pc = "done"
  /\ \E j \in 1..Len(fetchLog) :
       /\ fetchLog[j].currentDepth = 2 /\ fetchLog[j].status = "ok"
       /\ disc > Max({0} \cup {enqueued[i].url : i \in 1..Len(enqueued)})

InFlightFetches == {j \in 1..Len(fetchLog) : fetchLog[j].status = "started"}

----------------------------------------------------------------------------
(* Properties of extractMainContent (SelectSpec) *)

\* C22: a content selector that matches exactly one element selects that
\* element only if its trimmed text is longer than 100 characters; otherwise
\* the selection moves on to the next selector and then to the fallbacks
SingleMatchNeedsLongText ==
  (spc = "done" /\ selected.by = "selector") =>
    (Len(dom.matches[selected.selector]) = 1 =>
       dom.matches[selected.selector][1] > MinTextLength)

\* C31: when no priority selector matches and the document has paragraphs,
\* ContentExtractor.extractMainContent selects the smallest container that
\* encloses the most paragraphs: the element is body, the section or the div,
\* every paragraph of the document is inside it (body encloses them all, so
\* that is the highest count), and no container below it encloses them all;
\* with a paragraph directly in body that element is body
DensityPicksSmallestEnclosingMost ==
  (sfn = "ContentExtractor" /\ spc = "done" /\ selected.by \in {"density", "body"}
     /\ dom.paragraphs # <<>>) =>
    LET all == 1..Len(dom.paragraphs)
        chosen == IF selected.by = "body" THEN "body" ELSE selected.element.tag
    IN  chosen = (IF \A n \in all : dom.paragraphs[n] = "div" THEN "div"
                  ELSE IF \A n \in all : dom.paragraphs[n] # "body" THEN "section"
                  ELSE "body")

----------------------------------------------------------------------------
(* Properties of two invocations (PairSpec, ConcurrentSpec) *)

\* C23: the traversal that deduplicates when it enqueues returns the result
\* sequence that performDeepSearch returns for the same seeds, pages, failing
\* pages, depth and budget
DedupReturnsSameResults ==
  invocations[2].pc = "done" => invocations[2].results = invocations[1].results

\* both traversals returned two pages or more, performDeepSearch after it
\* skipped an entry that the other traversal never enqueued
SkippedEntryNeverEnqueued ==
  /\ invocations[2].dedup
  /\ invocations[1].pc = "done" /\ invocations[2].pc = "done"
  /\ invocations[1].skipped > 0 /\ invocations[2].skipped = 0
  /\ Len(invocations[2].results) >= 2
  /\ invocations[2].results = invocations[1].results

\* the results invocation i returns when it runs alone
ResultsAlone(i) ==
  Alone(SeedQueue(invocations[i].initialUrls), {}, <<>>, invocations[i].depth,
        invocations[i].maxPages, web)

\* C26: each of two concurrent invocations returns the result sequence that
\* it returns when it runs alone on the same pages
ConcurrentReturnsAsAlone ==
  \A i \in Invocations :
    invocations[i].pc = "done" => invocations[i].results = ResultsAlone(i)

\* two invocations that ran interleaved both fetched and returned one same
\* page
BothReturnedSamePage ==
  /\ \A i \in Invocations :
       /\ ~invocations[i].dedup
       /\ invocations[i].pc = "done"
       /\ invocations[i].overlapped
       /\ Len(invocations[i].results) >= 2
  /\ \E k \in 1..Len(invocations[1].results), l \in 1..Len(invocations[2].results) :
       invocations[1].results[k].url = invocations[2].results[l].url

-----------------------------------------------------------------------------
(* Properties of DeepSearchService.deepSearch (ServiceSpec) *)

\* the fetches of pages reached through links, for the search result in hand
RelatedFetches == {i \in 1..Len(crawl) : Len(crawl[i].page) > 1}

\* C33: the effective depth is min(depth, 2) and bounds the crawl of each
\* search result: with effective depth <= 0 no related page is fetched, with
\* depth 1 at most 3 are and they are links of the result's page, with depth 2
\* at most 6 are (3 links of the result's page and at most one page nested
\* under each), and no fetched page is more than two links away from the
\* search result
DepthBoundsCrawl ==
  dpc \notin {"none", "start"} =>
    /\ actualDepth = (IF ~request.depth.given THEN 0
                      ELSE IF request.depth.value < 2 THEN request.depth.value ELSE 2)
    /\ actualDepth <= 0 => RelatedFetches = {}
    /\ actualDepth = 1 =>
         /\ Cardinality(RelatedFetches) <= 3
         /\ \A i \in RelatedFetches : Len(crawl[i].page) = 2
    /\ actualDepth = 2 =>
         /\ Cardinality(RelatedFetches) <= 6
         /\ Cardinality({i \in RelatedFetches : Len(crawl[i].page) = 2}) <= 3
         /\ \A i \in RelatedFetches :
              Cardinality({j \in RelatedFetches :
                             /\ Len(crawl[j].page) = 3
                             /\ SubSeq(crawl[j].page, 1, 2) = SubSeq(crawl[i].page, 1, 2)}) <= 1
    /\ \A i \in 1..Len(crawl) : Len(crawl[i].page) - 1 <= 2

\* deepSearch was called with a depth above the cap and returned; the page of
\* its last search result had more than three links, and six related pages
\* were fetched for it
SixRelatedPagesFetched ==
  /\ dpc = "returned"
  /\ request.depth.given /\ request.depth.value > ServiceDepthCap
  /\ Len(contentLinks) > RelatedCap
  /\ Cardinality(RelatedFetches) = 6
  /\ Len(enrichedResults) = Len(searchResults)


====
